---- MODULE Spec2Model ----
(***************************************************************************)
(* Identity resolution of github.com/wallarm/distance-hashing.             *)
(*                                                                         *)
(* Two engines map identifier atoms ("<type>:<value>") to session keys:    *)
(*   CanonicalSessionGenerator (canonical_session.go) over UnionFind, and  *)
(*   SessionGenerator (structural N-degree hash over an adjacency map).    *)
(*                                                                         *)
(* Conventions of the model                                                *)
(*   - an atom string "t:v" is the pair <<t, v>>; the empty string is      *)
(*     EmptyId;                                                            *)
(*   - sort.Strings is byte-wise order, given by the tables TagOrder and   *)
(*     ValueOrder for the strings of the model;                            *)
(*   - SHA-256 is collision free: Sha256 is an injective constructor;      *)
(*   - Go's map iteration order is a nondeterministic choice.              *)
(***************************************************************************)
EXTENDS Integers, Sequences, FiniteSets, TLC

(***************************************************************************)
(* Bounds of the model.                                                    *)
(***************************************************************************)
MaxOps == 3
MaxCacheSize == 2
MaxIds == 2
MaxMembers == 3

(***************************************************************************)
(* Atoms and their byte-wise order.                                        *)
(***************************************************************************)
EmptyId == <<"", "">>

\* The atoms that the callers of the model hand to the engines: three tiers
\* of the priority list, two atoms in one tier, and one string ("email:A")
\* that LinkIdentifiers accepts but normalizeIdentifiers never produces.
Atoms == { <<"cookie", "c">>, <<"uid", "1">>, <<"email", "a">>, <<"email", "A">> }

Min(a, b) == IF a < b THEN a ELSE b

\* A wider set of atoms: every tier of the priority list, two atoms in some
\* tiers, and two tags outside the list.
WideAtoms ==
  { <<"uid", "1">>, <<"uid", "2">>, <<"email", "a">>, <<"email", "A">>,
    <<"client", "c">>, <<"device", "d">>, <<"cookie", "c">>, <<"jwt", "t">>,
    <<"custom", "x">>, <<"ip", "9">>, <<"zz", "1">> }

\* Tags in byte order (no tag is a prefix of another, so the order of two
\* atoms with different tags is the order of the tags).
TagOrder ==
  <<"", "client", "cookie", "custom", "device", "email", "ip", "jwt", "uid", "zz">>

\* Values in byte order: digits < upper case < lower case.
ValueOrder == <<"", "1", "2", "9", "A", "a", "c", "d", "t", "x">>

Range(s) == {s[i] : i \in 1..Len(s)}

IndexOf(seq, x) == CHOOSE i \in 1..Len(seq) : seq[i] = x

TagRank == [t \in Range(TagOrder) |-> IndexOf(TagOrder, t)]

ValueRank == [v \in Range(ValueOrder) |-> IndexOf(ValueOrder, v)]

\* a < b for the serialized strings, as sort.Strings compares them.
LexLess(a, b) ==
  \/ TagRank[a[1]] < TagRank[b[1]]
  \/ /\ a[1] = b[1]
     /\ ValueRank[a[2]] < ValueRank[b[2]]

RECURSIVE InsertSorted(_, _)
InsertSorted(s, x) ==
  IF s = <<>> THEN <<x>>
  ELSE IF LexLess(x, Head(s)) THEN <<x>> \o s
       ELSE <<Head(s)>> \o InsertSorted(Tail(s), x)

\* sort.Strings on a slice.
RECURSIVE SortStrings(_)
SortStrings(s) ==
  IF s = <<>> THEN <<>> ELSE InsertSorted(SortStrings(Tail(s)), Head(s))

\* The slice a range-over-map loop builds from a set: the elements in the
\* order the iteration happens to take.  Used where the code sorts the slice
\* or uses it as a set, so any one order stands for all.
RECURSIVE SeqOf(_)
SeqOf(S) ==
  IF S = {} THEN <<>>
  ELSE LET x == CHOOSE y \in S : \A z \in S : z = y \/ LexLess(y, z)
       IN <<x>> \o SeqOf(S \ {x})

Put(f, k, v) == [x \in (DOMAIN f) \cup {k} |-> IF x = k THEN v ELSE f[x]]

EmptyMap == [x \in {} |-> x]

(***************************************************************************)
(* Identifiers and normalizeIdentifiers.                                   *)
(***************************************************************************)
\* strings.ToLower on the values of the model.
ToLower(v) == IF v = "A" THEN "a" ELSE v

\* The final sort.Strings(identifiers) of normalizeIdentifiers.
SortIdentifiers(s) == SortStrings(s)

\* normalizeIdentifiers: ids is the map type -> value, order the sequence of
\* its keys in the order the range loop visits them.
\* A variant of the range loop that keeps the entries with an empty value.
RECURSIVE CollectEmptyBug(_, _)
CollectEmptyBug(ids, order) ==
  IF order = <<>> THEN <<>>
  ELSE LET idType == Head(order)
           idValue == ids[idType]
           rest == CollectEmptyBug(ids, Tail(order))
       IN IF idType = "email"
          THEN << <<idType, ToLower(idValue)>> >> \o rest
          ELSE << <<idType, idValue>> >> \o rest

RECURSIVE CollectIdentifiers(_, _)
CollectIdentifiers(ids, order) ==
  IF order = <<>> THEN <<>>
  ELSE LET idType == Head(order)
           idValue == ids[idType]
           rest == CollectIdentifiers(ids, Tail(order))
       IN IF idValue = "" THEN rest
          ELSE IF idType = "email"
               THEN << <<idType, ToLower(idValue)>> >> \o rest
               ELSE << <<idType, idValue>> >> \o rest

normalizeIdentifiers(ids, order) ==
  SortIdentifiers(CollectIdentifiers(ids, order))

(***************************************************************************)
(* The LRU cache (hashicorp/golang-lru): items, most recently used first.  *)
(***************************************************************************)
NewLru(size) == [size |-> size, items |-> <<>>]

LruContains(c, k) == \E i \in 1..Len(c.items) : c.items[i].k = k

LruValue(c, k) == (CHOOSE i \in 1..Len(c.items) : c.items[i].k = k)

LruPeek(c, k) == c.items[LruValue(c, k)].v

LruWithout(items, k) == SelectSeq(items, LAMBDA e : e.k # k)

\* Get: a hit makes the entry the most recently used.
LruGet(c, k) ==
  IF LruContains(c, k)
  THEN [c EXCEPT !.items = <<[k |-> k, v |-> LruPeek(c, k)]>> \o LruWithout(c.items, k)]
  ELSE c

\* Add: insert or overwrite as most recently used, evict the oldest entry
\* beyond the capacity.
LruAdd(c, k, v) ==
  LET items == <<[k |-> k, v |-> v]>> \o LruWithout(c.items, k)
  IN [c EXCEPT !.items = SubSeq(items, 1, Min(Len(items), c.size))]

LruRemove(c, k) == [c EXCEPT !.items = LruWithout(c.items, k)]

LruPurge(c) == [c EXCEPT !.items = <<>>]

RECURSIVE LruAddAll(_, _, _)
LruAddAll(c, keys, v) ==
  IF keys = <<>> THEN c ELSE LruAddAll(LruAdd(c, Head(keys), v), Tail(keys), v)

(***************************************************************************)
(* UnionFind.                                                              *)
(***************************************************************************)
NewUnionFind == [parent |-> EmptyMap, rank |-> EmptyMap]

\* A variant of findWithoutLock without the path compression.
RECURSIVE FindNoCompressionBug(_, _)
FindNoCompressionBug(uf, id) ==
  IF id \notin DOMAIN uf.parent
  THEN [uf |-> [parent |-> Put(uf.parent, id, id), rank |-> Put(uf.rank, id, 0)],
        root |-> id]
  ELSE IF uf.parent[id] # id
       THEN [uf |-> uf, root |-> FindNoCompressionBug(uf, uf.parent[id]).root]
       ELSE [uf |-> uf, root |-> id]

\* findWithoutLock: the root of id, with path compression; an unknown id
\* becomes its own root.
RECURSIVE findWithoutLock(_, _)
findWithoutLock(uf, id) ==
  IF id \notin DOMAIN uf.parent
  THEN [uf |-> [parent |-> Put(uf.parent, id, id), rank |-> Put(uf.rank, id, 0)],
        root |-> id]
  ELSE IF uf.parent[id] # id
       THEN LET r == findWithoutLock(uf, uf.parent[id])
            IN [uf |-> [r.uf EXCEPT !.parent[id] = r.root], root |-> r.root]
       ELSE [uf |-> uf, root |-> id]

Find(uf, id) == findWithoutLock(uf, id)

\* A variant of Union that attaches the node id2, not its root.
UnionAttachNodeBug(uf, id1, id2) ==
  LET f1 == findWithoutLock(uf, id1)
      f2 == findWithoutLock(f1.uf, id2)
  IN IF f1.root = f2.root THEN [uf |-> f2.uf, root |-> f1.root]
     ELSE [uf |-> [f2.uf EXCEPT !.parent[id2] = f1.root], root |-> f1.root]

\* A variant of Union that attaches the root of higher rank under the
\* root of lower rank.
UnionLowerWinsBug(uf, id1, id2) ==
  LET f1 == findWithoutLock(uf, id1)
      f2 == findWithoutLock(f1.uf, id2)
      root1 == f1.root
      root2 == f2.root
      u == f2.uf
  IN IF root1 = root2 THEN [uf |-> u, root |-> root1]
     ELSE IF u.rank[root1] > u.rank[root2]
          THEN [uf |-> [u EXCEPT !.parent[root1] = root2], root |-> root2]
          ELSE IF u.rank[root1] < u.rank[root2]
               THEN [uf |-> [u EXCEPT !.parent[root2] = root1], root |-> root1]
               ELSE [uf |-> [u EXCEPT !.parent[root2] = root1,
                                      !.rank[root1] = u.rank[root1] + 1],
                     root |-> root1]

\* A variant of Union that leaves the rank alone on equal ranks.
UnionNoRankBug(uf, id1, id2) ==
  LET f1 == findWithoutLock(uf, id1)
      f2 == findWithoutLock(f1.uf, id2)
      root1 == f1.root
      root2 == f2.root
      u == f2.uf
  IN IF root1 = root2 THEN [uf |-> u, root |-> root1]
     ELSE IF u.rank[root1] < u.rank[root2]
          THEN [uf |-> [u EXCEPT !.parent[root1] = root2], root |-> root2]
          ELSE [uf |-> [u EXCEPT !.parent[root2] = root1], root |-> root1]

Union(uf, id1, id2) ==
  LET f1 == findWithoutLock(uf, id1)
      f2 == findWithoutLock(f1.uf, id2)
      root1 == f1.root
      root2 == f2.root
      u == f2.uf
  IN IF root1 = root2 THEN [uf |-> u, root |-> root1]
     ELSE IF u.rank[root1] < u.rank[root2]
          THEN [uf |-> [u EXCEPT !.parent[root1] = root2], root |-> root2]
          ELSE IF u.rank[root1] > u.rank[root2]
               THEN [uf |-> [u EXCEPT !.parent[root2] = root1], root |-> root1]
               ELSE [uf |-> [u EXCEPT !.parent[root2] = root1,
                                      !.rank[root1] = u.rank[root1] + 1],
                     root |-> root1]

Connected(uf, id1, id2) ==
  LET f1 == Find(uf, id1)
      f2 == Find(f1.uf, id2)
  IN [uf |-> f2.uf, ok |-> f1.root = f2.root]

\* The loop "for nodeID := range uf.parent { findWithoutLock(nodeID) }":
\* compresses the path of every node in nodes.
RECURSIVE FindEach(_, _)
FindEach(uf, nodes) ==
  IF nodes = <<>> THEN uf
  ELSE FindEach(findWithoutLock(uf, Head(nodes)).uf, Tail(nodes))

RootOf(uf, id) == findWithoutLock(uf, id).root

GetComponentMembers(uf, id) ==
  LET f == findWithoutLock(uf, id)
      nodes == DOMAIN f.uf.parent
  IN [uf |-> FindEach(f.uf, SeqOf(nodes)),
      members |-> {n \in nodes : RootOf(f.uf, n) = f.root}]

ComponentSize(uf, id) ==
  LET f == Find(uf, id)
      nodes == DOMAIN f.uf.parent
  IN [uf |-> FindEach(f.uf, SeqOf(nodes)),
      size |-> Cardinality({n \in nodes : RootOf(f.uf, n) = f.root})]

(***************************************************************************)
(* Session keys.                                                           *)
(***************************************************************************)
\* The first 8 bytes of SHA-256 of the data, taken as collision free.
Sha256(data) == <<"sha256", data>>

AnonymousKey == <<"sess_anonymous">>

EmptyKey == <<"sess_empty">>

\* fmt.Sprintf("sess_%x", hash[:8])
SessKey(data) == <<"sess", Sha256(data)>>

(***************************************************************************)
(* CanonicalSessionGenerator: csg = [uf, cache].                           *)
(***************************************************************************)
NewCanonicalSessionGenerator(cacheSize) ==
  [uf |-> NewUnionFind, cache |-> NewLru(cacheSize)]

PrioritiesSwappedBug == <<"email", "uid", "client", "device", "cookie", "jwt", "custom">>

\* priorities := []string{"uid:", "email:", ...}
Priorities == <<"uid", "email", "client", "device", "cookie", "jwt", "custom">>

\* strings.HasPrefix(id, prefix) for prefix = tag + ":".
HasPrefix(id, tag) == id[1] = tag

LastSortedBug(S) == CHOOSE x \in S : \A y \in S : y = x \/ LexLess(y, x)

\* sort.Strings(candidates); candidates[0]
FirstSorted(S) == SortStrings(SeqOf(S))[1]

RECURSIVE SelectByPriority(_, _)
SelectByPriority(component, prefixes) ==
  IF prefixes = <<>> THEN FirstSorted(component)
  ELSE LET candidates == {id \in component : HasPrefix(id, Head(prefixes))}
       IN IF candidates # {} THEN FirstSorted(candidates)
          ELSE SelectByPriority(component, Tail(prefixes))

SelectRootBug(uf, root) == [uf |-> uf, canonical |-> root]

selectCanonical(uf, root) ==
  LET m == GetComponentMembers(uf, root)
  IN [uf |-> m.uf,
      canonical |-> IF m.members = {} THEN root
                    ELSE SelectByPriority(m.members, Priorities)]

generateSessionKey(canonical) == SessKey(canonical)

\* root = Union(root, identifiers[i]) for the identifiers after the first.
RECURSIVE UnionAll(_, _, _)
UnionAll(uf, root, rest) ==
  IF rest = <<>> THEN [uf |-> uf, root |-> root]
  ELSE LET u == Union(uf, root, Head(rest))
       IN UnionAll(u.uf, u.root, Tail(rest))

\* A lookup that trusts the cached key of the first identifier, as
\* SessionGenerator.GetSessionKey does.
CsgTrustCacheBug(csg, ids, order) ==
  LET identifiers == normalizeIdentifiers(ids, order)
  IN IF identifiers = <<>> THEN [csg |-> csg, key |-> AnonymousKey]
     ELSE LET first == identifiers[1]
              f == Find(csg.uf, first)
              u == UnionAll(f.uf, f.root, Tail(identifiers))
              sel == selectCanonical(u.uf, u.root)
              sessionKey == generateSessionKey(sel.canonical)
          IN IF LruContains(csg.cache, first)
             THEN [csg |-> [uf |-> sel.uf, cache |-> LruGet(csg.cache, first)],
                   key |-> LruPeek(csg.cache, first)]
             ELSE [csg |-> [uf |-> sel.uf,
                            cache |-> LruAddAll(csg.cache, identifiers, sessionKey)],
                   key |-> sessionKey]

\* A variant of GetSessionKey that keeps the cached key of the first
\* identifier whenever there is one, stale or not.
CsgKeepStaleBug(csg, ids, order) ==
  LET identifiers == normalizeIdentifiers(ids, order)
  IN IF identifiers = <<>> THEN [csg |-> csg, key |-> AnonymousKey]
     ELSE LET first == identifiers[1]
              f == Find(csg.uf, first)
              u == UnionAll(f.uf, f.root, Tail(identifiers))
              sel == selectCanonical(u.uf, u.root)
              sessionKey == generateSessionKey(sel.canonical)
              hit == LruContains(csg.cache, first)
              c1 == LruGet(csg.cache, first)
          IN IF hit
             THEN [csg |-> [uf |-> sel.uf,
                            cache |-> LruAddAll(c1, Tail(identifiers), sessionKey)],
                   key |-> sessionKey]
             ELSE [csg |-> [uf |-> sel.uf,
                            cache |-> LruAddAll(c1, identifiers, sessionKey)],
                   key |-> sessionKey]

CsgGetSessionKey(csg, ids, order) ==
  LET identifiers == normalizeIdentifiers(ids, order)
  IN IF identifiers = <<>> THEN [csg |-> csg, key |-> AnonymousKey]
     ELSE LET first == identifiers[1]
              f == Find(csg.uf, first)
              u == UnionAll(f.uf, f.root, Tail(identifiers))
              sel == selectCanonical(u.uf, u.root)
              sessionKey == generateSessionKey(sel.canonical)
              hit == LruContains(csg.cache, first)
              c1 == LruGet(csg.cache, first)
          IN IF hit /\ LruPeek(csg.cache, first) = sessionKey
             THEN [csg |-> [uf |-> sel.uf,
                            cache |-> LruAddAll(c1, Tail(identifiers), sessionKey)],
                   key |-> sessionKey]
             ELSE [csg |-> [uf |-> sel.uf,
                            cache |-> LruAddAll(c1, identifiers, sessionKey)],
                   key |-> sessionKey]

\* A variant of LinkIdentifiers that invalidates the whole cache.
CsgLinkPurgeBug(csg, id1, id2) ==
  IF id1 = EmptyId \/ id2 = EmptyId THEN csg
  ELSE LET c == Connected(csg.uf, id1, id2)
       IN IF c.ok THEN [csg EXCEPT !.uf = c.uf]
          ELSE [uf |-> Union(c.uf, id1, id2).uf, cache |-> LruPurge(csg.cache)]

CsgLinkIdentifiers(csg, id1, id2) ==
  IF id1 = EmptyId \/ id2 = EmptyId THEN csg
  ELSE LET c == Connected(csg.uf, id1, id2)
       IN IF c.ok THEN [csg EXCEPT !.uf = c.uf]
          ELSE [uf |-> Union(c.uf, id1, id2).uf,
                cache |-> LruRemove(LruRemove(csg.cache, id1), id2)]

CsgAreLinked(csg, id1, id2) ==
  IF id1 = EmptyId \/ id2 = EmptyId THEN [csg |-> csg, ok |-> FALSE]
  ELSE LET c == Connected(csg.uf, id1, id2)
       IN [csg |-> [csg EXCEPT !.uf = c.uf], ok |-> c.ok]

CsgGetSessionSize(csg, id) ==
  IF id = EmptyId THEN [csg |-> csg, size |-> 0]
  ELSE LET c == ComponentSize(csg.uf, id)
       IN [csg |-> [csg EXCEPT !.uf = c.uf], size |-> c.size]

(***************************************************************************)
(* SessionGenerator: sg = [edges, cache, hashCache].                       *)
(***************************************************************************)
NewSessionGenerator(cacheSize) ==
  [edges |-> EmptyMap, cache |-> NewLru(cacheSize), hashCache |-> EmptyMap]

\* if sg.edges[id] == nil { sg.edges[id] = make(map[string]bool) }
EnsureNode(edges, id) == IF id \in DOMAIN edges THEN edges ELSE Put(edges, id, {})

OneWayEdgeBug(edges, from, to) ==
  LET e == EnsureNode(EnsureNode(edges, from), to)
  IN [e EXCEPT ![from] = e[from] \cup {to}]

addEdgeWithoutLock(edges, from, to) ==
  LET e == EnsureNode(EnsureNode(edges, from), to)
      e1 == [e EXCEPT ![from] = e[from] \cup {to}]
  IN [e1 EXCEPT ![to] = e1[to] \cup {from}]

\* The breadth-first search: the nodes reachable from the visited ones.
RECURSIVE Reach(_, _)
Reach(edges, visited) ==
  LET next == visited \cup UNION {edges[n] : n \in visited}
  IN IF next = visited THEN visited ELSE Reach(edges, next)

findConnectedComponentWithoutLock(edges, startID) ==
  IF startID \notin DOMAIN edges THEN {startID} ELSE Reach(edges, {startID})

\* neighbors := sg.edges[nodeID]: empty for a node that is not in the graph.
Neighbors(edges, nodeID) == IF nodeID \in DOMAIN edges THEN edges[nodeID] ELSE {}

computeFirstDegreeHash(edges, nodeID, component) ==
  LET sortedNeighbors == SortStrings(SeqOf(Neighbors(edges, nodeID) \cap component))
  IN Sha256(<<"fd", nodeID, sortedNeighbors>>)

\* The nodes of the component at each breadth-first depth from the frontier.
RECURSIVE Depths(_, _, _, _, _)
Depths(edges, component, frontier, seen, depth) ==
  IF frontier = {} THEN {}
  ELSE LET next == (UNION {edges[n] \cap component : n \in frontier}) \ seen
       IN {<<n, depth>> : n \in frontier}
            \cup Depths(edges, component, next, seen \cup next, depth + 1)

\* computeNDegreeHash: the sorted path signatures "<id>@<depth>:<neighbor
\* hashes>" of the nodes within maxDepth hops, hashed.
computeNDegreeHash(edges, nodeID, component, firstDegreeHashes, maxDepth) ==
  LET visited == Depths(edges, component, {nodeID}, {nodeID}, 0)
      paths == {<<v[1], v[2], {firstDegreeHashes[m] : m \in edges[v[1]] \cap component}>> :
                  v \in {w \in visited : w[2] <= maxDepth}}
  IN Sha256(<<"nd", paths>>)

MaxDepth == 3

\* Steps 1-4 of computeComponentCanonicalHash: the fingerprint of the
\* component computed from the graph.
ComponentFingerprint(edges, component) ==
  LET firstDegreeHashes ==
        [n \in component |-> computeFirstDegreeHash(edges, n, component)]
      unique(n) == \A m \in component : firstDegreeHashes[m] = firstDegreeHashes[n] => m = n
      finalHashes ==
        [n \in component |->
           IF unique(n) THEN firstDegreeHashes[n]
           ELSE computeNDegreeHash(edges, n, component, firstDegreeHashes, MaxDepth)]
  IN SessKey(<<"component", {finalHashes[n] : n \in component}>>)

\* computeComponentCanonicalHash: cacheKey is the node that the loop
\* "for nodeID := range component { cacheKey = nodeID; break }" yields.
computeComponentCanonicalHash(sg, component, cacheKey) ==
  IF component = {} THEN [hashCache |-> sg.hashCache, hash |-> EmptyKey]
  ELSE IF cacheKey \in DOMAIN sg.hashCache
       THEN [hashCache |-> sg.hashCache, hash |-> sg.hashCache[cacheKey]]
       ELSE LET componentHash == ComponentFingerprint(sg.edges, component)
            IN [hashCache |-> [n \in (DOMAIN sg.hashCache) \cup component |->
                                 IF n \in component THEN componentHash
                                 ELSE sg.hashCache[n]],
                hash |-> componentHash]

\* Edges between all provided identifiers.
RECURSIVE AddEdgesFrom(_, _, _)
AddEdgesFrom(edges, from, rest) ==
  IF rest = <<>> THEN edges
  ELSE AddEdgesFrom(addEdgeWithoutLock(edges, from, Head(rest)), from, Tail(rest))

RECURSIVE AddAllEdges(_, _)
AddAllEdges(edges, identifiers) ==
  IF identifiers = <<>> THEN edges
  ELSE AddAllEdges(AddEdgesFrom(EnsureNode(edges, Head(identifiers)),
                                Head(identifiers), Tail(identifiers)),
                   Tail(identifiers))

\* The component that a cache-miss lookup of ids hashes.
SgLookupComponent(sg, ids, order) ==
  LET identifiers == normalizeIdentifiers(ids, order)
  IN IF identifiers = <<>> \/ LruContains(sg.cache, identifiers[1]) THEN {}
     ELSE findConnectedComponentWithoutLock(AddAllEdges(sg.edges, identifiers),
                                            identifiers[1])

\* GetSessionKey.  cacheKey: the node computeComponentCanonicalHash picks;
\* addOrder: the order in which "for nodeID := range component" adds the
\* nodes to the LRU cache.
SgGetSessionKey(sg, ids, order, cacheKey, addOrder) ==
  LET identifiers == normalizeIdentifiers(ids, order)
  IN IF identifiers = <<>> THEN [sg |-> sg, key |-> AnonymousKey]
     ELSE LET firstID == identifiers[1]
          IN IF LruContains(sg.cache, firstID)
             THEN [sg |-> [sg EXCEPT !.cache = LruGet(sg.cache, firstID)],
                   key |-> LruPeek(sg.cache, firstID)]
             ELSE LET edges == AddAllEdges(sg.edges, identifiers)
                      component == findConnectedComponentWithoutLock(edges, firstID)
                      h == computeComponentCanonicalHash(
                             [sg EXCEPT !.edges = edges], component, cacheKey)
                  IN [sg |-> [edges |-> edges,
                              cache |-> LruAddAll(sg.cache, addOrder, h.hash),
                              hashCache |-> h.hashCache],
                      key |-> h.hash]

\* for nodeID := range component { delete(sg.hashCache, nodeID) }
DeleteHashes(hashCache, component) ==
  [n \in (DOMAIN hashCache) \ component |-> hashCache[n]]

SgLinkIdentifiers(sg, id1, id2) ==
  IF id1 = EmptyId \/ id2 = EmptyId THEN sg
  ELSE LET edges == addEdgeWithoutLock(sg.edges, id1, id2)
           component == findConnectedComponentWithoutLock(edges, id1)
       IN [edges |-> edges,
           cache |-> LruRemove(LruRemove(sg.cache, id1), id2),
           hashCache |-> DeleteHashes(sg.hashCache, component)]

\* A variant of AreLinked without the test for empty arguments.
SgAreLinkedNoGuardBug(sg, id1, id2) ==
  id2 \in findConnectedComponentWithoutLock(sg.edges, id1)

SgAreLinked(sg, id1, id2) ==
  IF id1 = EmptyId \/ id2 = EmptyId THEN FALSE
  ELSE id2 \in findConnectedComponentWithoutLock(sg.edges, id1)

SgGetSessionSize(sg, id) ==
  IF id = EmptyId THEN 0
  ELSE Cardinality(findConnectedComponentWithoutLock(sg.edges, id))

(***************************************************************************)
(* The state.  kind is the engine that was constructed ("canonical": csg,  *)
(* "structural": sg); csg2 and sg2 are the engine of a second run, for the *)
(* comparisons between runs.  ret and ret2 hold what the last call of each *)
(* run returned; links and links2 are the history of the pairs handed to   *)
(* Union and addEdgeWithoutLock; nops counts the calls.  called is the     *)
(* history of the pairs handed to LinkIdentifiers.  With kind "history"    *)
(* the engine is a SessionGeneratorWithHistory: its embedded               *)
(* SessionGenerator is sg, history and oldToNew are its maps, and seen is  *)
(* the history of the pairs <<atom of the query, key returned>> of its     *)
(* GetSessionKey calls; owned is the history of the pairs <<atom, hash of  *)
(* the atom's component>> after each of its calls.  passed is the set of   *)
(* the atoms handed to a lookup or a link, for the callers that also       *)
(* query (SpecQuery) or inspect (SpecStats), and dropped is the set of the *)
(* atoms the engine had been handed when it was last cleared.  For the     *)
(* callers that run as threads (SpecThreads, SpecLocks), mu is the         *)
(* sync.RWMutex of the shared structure (uf.mu or sg.mu) and th holds each *)
(* thread's operation, its position in it and its local variables.  bare  *)
(* is the set of the states a SessionGenerator without the wrapper can be  *)
(* in after the calls made so far (SpecWrapper).                           *)
(***************************************************************************)
VARIABLES kind, csg, sg, csg2, sg2, ret, ret2, links, links2, nops,
          called, history, oldToNew, seen, owned, passed, dropped, mu, th, bare

vars == <<kind, csg, sg, csg2, sg2, ret, ret2, links, links2, nops,
          called, history, oldToNew, seen, owned, passed, dropped, mu, th, bare>>

\* The threads of the callers, and the value of "no thread".
Threads == {"t1", "t2"}

Nobody == "nobody"

\* sync.RWMutex: w is the thread that has called Lock and not yet Unlock
\* (it holds the lock once the readers have left), readers counts the
\* RLock calls each thread has not yet matched with RUnlock.
NoLock == [w |-> Nobody, readers |-> [t \in Threads |-> 0]]

\* A thread that has not started its operation.
IdleThread ==
  [pc |-> "idle", op |-> "none", a |-> EmptyId, b |-> EmptyId, root |-> EmptyId,
   found |-> EmptyId, pre |-> FALSE, ret |-> <<>>]

\* The fields and the observations of the history wrapper.
wrapper == <<history, oldToNew, seen, owned, passed, dropped, mu, th, bare>>

Tags == {a[1] : a \in Atoms}

ValuesOf(t) == {a[2] : a \in {b \in Atoms : b[1] = t}} \cup {""}

\* The Identifiers maps of the callers: at most MaxIds entries, a value of
\* the model or the empty string for each type.
IdentifierMaps ==
  UNION {{m \in [T -> UNION {ValuesOf(t) : t \in T}] : \A t \in T : m[t] \in ValuesOf(t)} :
           T \in {U \in SUBSET Tags : Cardinality(U) <= MaxIds}}

\* The sequences without repetition of length n over S.
Injective(S, n) ==
  {s \in [1..n -> S] : \A i, j \in 1..n : s[i] = s[j] => i = j}

\* The orders in which a range loop may visit the keys of ids.
Orders(ids) == Injective(DOMAIN ids, Cardinality(DOMAIN ids))

\* The orders in which a range loop may add the component to an LRU cache of
\* the given size: the entries that remain, and their recency, are those of
\* the last size nodes added.
AddOrders(component, size) ==
  {SeqOf(component \ Range(tail)) \o tail :
     tail \in Injective(component, Min(size, Cardinality(component)))}

Pair(a, b) == {a, b}

NoRet == [op |-> "none", val |-> <<>>]

\* The pairs GetSessionKey hands to Union: the running root with each
\* further identifier joins the first identifier's component with it.
CsgLookupPairs(identifiers) ==
  {Pair(identifiers[1], identifiers[i]) : i \in 1..Len(identifiers)}

\* The pairs GetSessionKey hands to addEdgeWithoutLock (none on a cache hit).
SgLookupPairs(s, identifiers) ==
  IF identifiers = <<>> \/ LruContains(s.cache, identifiers[1]) THEN {}
  ELSE {Pair(identifiers[i], identifiers[j]) : i, j \in 1..Len(identifiers)}

InitEngines(kinds) ==
  /\ kind \in kinds
  /\ \E cacheSize \in 1..MaxCacheSize :
       /\ csg = NewCanonicalSessionGenerator(cacheSize)
       /\ sg = NewSessionGenerator(cacheSize)
       /\ csg2 = NewCanonicalSessionGenerator(cacheSize)
       /\ sg2 = NewSessionGenerator(cacheSize)
  /\ ret = NoRet
  /\ ret2 = NoRet
  /\ links = {}
  /\ links2 = {}
  /\ nops = 0
  /\ called = {}
  /\ history = EmptyMap
  /\ oldToNew = EmptyMap
  /\ seen = {}
  /\ owned = {}
  /\ passed = {}
  /\ dropped = {}
  /\ mu = NoLock
  /\ th = [t \in Threads |-> IdleThread]
  /\ bare = {sg}

Init == InitEngines({"canonical", "structural"})

Step ==
  /\ nops < MaxOps
  /\ nops' = nops + 1

CanonicalGetSessionKey(ids, order) ==
  /\ kind = "canonical"
  /\ Step
  /\ LET c == CsgGetSessionKey(csg, ids, order)
         identifiers == normalizeIdentifiers(ids, order)
     IN /\ csg' = c.csg
        /\ ret' = [op |-> "GetSessionKey", val |-> c.key]
        /\ links' = links \cup
                      (IF identifiers = <<>> THEN {} ELSE CsgLookupPairs(identifiers))
  /\ UNCHANGED <<kind, sg, csg2, sg2, ret2, links2, called, wrapper>>

CanonicalLinkIdentifiers(id1, id2) ==
  /\ kind = "canonical"
  /\ Step
  /\ csg' = CsgLinkIdentifiers(csg, id1, id2)
  /\ ret' = [op |-> "LinkIdentifiers", val |-> <<>>]
  /\ links' = IF id1 = EmptyId \/ id2 = EmptyId THEN links
              ELSE links \cup {Pair(id1, id2)}
  /\ called' = IF id1 = EmptyId \/ id2 = EmptyId THEN called
               ELSE called \cup {Pair(id1, id2)}
  /\ UNCHANGED <<kind, sg, csg2, sg2, ret2, links2, wrapper>>

StructuralGetSessionKey(ids, order) ==
  /\ kind = "structural"
  /\ Step
  /\ LET identifiers == normalizeIdentifiers(ids, order)
         component == SgLookupComponent(sg, ids, order)
     IN \E cacheKey \in (IF component = {} THEN {EmptyId} ELSE component),
           addOrder \in AddOrders(component, sg.cache.size) :
          LET s == SgGetSessionKey(sg, ids, order, cacheKey, addOrder)
          IN /\ sg' = s.sg
             /\ ret' = [op |-> "GetSessionKey", val |-> s.key]
             /\ links' = links \cup SgLookupPairs(sg, identifiers)
  /\ UNCHANGED <<kind, csg, csg2, sg2, ret2, links2, called, wrapper>>

StructuralLinkIdentifiers(id1, id2) ==
  /\ kind = "structural"
  /\ Step
  /\ sg' = SgLinkIdentifiers(sg, id1, id2)
  /\ ret' = [op |-> "LinkIdentifiers", val |-> <<>>]
  /\ links' = IF id1 = EmptyId \/ id2 = EmptyId THEN links
              ELSE links \cup {Pair(id1, id2)}
  /\ called' = IF id1 = EmptyId \/ id2 = EmptyId THEN called
               ELSE called \cup {Pair(id1, id2)}
  /\ UNCHANGED <<kind, csg, csg2, sg2, ret2, links2, wrapper>>

Next ==
  \/ \E ids \in IdentifierMaps : \E order \in Orders(ids) :
       CanonicalGetSessionKey(ids, order)
  \/ \E id1, id2 \in Atoms \cup {EmptyId} : CanonicalLinkIdentifiers(id1, id2)
  \/ \E ids \in IdentifierMaps : \E order \in Orders(ids) :
       StructuralGetSessionKey(ids, order)
  \/ \E id1, id2 \in Atoms \cup {EmptyId} : StructuralLinkIdentifiers(id1, id2)

Spec == Init /\ [][Next]_vars

(***************************************************************************)
(* Observers: what a call would return in the current state.               *)
(***************************************************************************)
\* The Identifiers map {type: value} of one atom.
IdsOf(a) == [t \in {a[1]} |-> a[2]]

\* The atoms that normalizeIdentifiers produces for some map.
IsNormal(a) == a[1] = "email" => ToLower(a[2]) = a[2]

NormalAtoms == {a \in Atoms : IsNormal(a)}

CacheKeys(component) == IF component = {} THEN {EmptyId} ELSE component

\* Every result [sg, key] that SessionGenerator.GetSessionKey(ids) can have
\* in state s, over the iteration orders of its range loops.
SgOutcomes(s, ids) ==
  UNION {LET component == SgLookupComponent(s, ids, order)
         IN {SgGetSessionKey(s, ids, order, cacheKey, addOrder) :
               cacheKey \in CacheKeys(component),
               addOrder \in AddOrders(component, s.cache.size)} :
           order \in Orders(ids)}

\* Every result [csg, key] of CanonicalSessionGenerator.GetSessionKey(ids).
CsgOutcomes(c, ids) == {CsgGetSessionKey(c, ids, order) : order \in Orders(ids)}

\* The component of a under the pairs linked so far.
RECURSIVE LinkReach(_, _)
LinkReach(pairs, visited) ==
  LET next == visited \cup UNION {p \in pairs : p \cap visited # {}}
  IN IF next = visited THEN visited ELSE LinkReach(pairs, next)

LinkComponent(pairs, a) == LinkReach(pairs, {a})

(***************************************************************************)
(* C1: SessionGenerator, same component => same key.  In every reachable   *)
(* state, for atoms a and b with AreLinked(a, b), GetSessionKey({a})       *)
(* followed by GetSessionKey({b}) return the same key.                     *)
(***************************************************************************)
C1_SameComponentSameKey ==
  kind = "structural" =>
    \A a, b \in NormalAtoms :
      SgAreLinked(sg, a, b) =>
        \A ra \in SgOutcomes(sg, IdsOf(a)) :
          \A rb \in SgOutcomes(ra.sg, IdsOf(b)) : ra.key = rb.key

(***************************************************************************)
(* C2: SessionGenerator.GetSessionKey(ids) returns with every pair of the  *)
(* normalized atoms of ids linked, whatever the cache held before.         *)
(***************************************************************************)
C2_LookupLinksAll ==
  kind = "structural" =>
    \A ids \in IdentifierMaps :
      \A r \in SgOutcomes(sg, ids) :
        \A order \in Orders(ids) :
          \A x, y \in Range(normalizeIdentifiers(ids, order)) :
            SgAreLinked(r.sg, x, y)

(***************************************************************************)
(* C4: CanonicalSessionGenerator, same component => same key.  In every    *)
(* reachable state, for atoms a and b with AreLinked(a, b),                *)
(* GetSessionKey({a}) followed by GetSessionKey({b}) return the same key,  *)
(* also when the cache holds an older key for one of them.                 *)
(***************************************************************************)
C4_CanonicalSameKey ==
  kind = "canonical" =>
    \A a, b \in NormalAtoms :
      LET l == CsgAreLinked(csg, a, b)
      IN l.ok =>
           \A ra \in CsgOutcomes(l.csg, IdsOf(a)) :
             \A rb \in CsgOutcomes(ra.csg, IdsOf(b)) : ra.key = rb.key

\* The key GetSessionKey({a}) returns in the current state of csg.
CsgKeyOf(c, a) == CsgGetSessionKey(c, IdsOf(a), <<a[1]>>).key

\* Two distinct linked atoms, one of them with a stale key in the cache.
C4_Witness ==
  /\ kind = "canonical"
  /\ \E a, b \in NormalAtoms :
       /\ a # b
       /\ CsgAreLinked(csg, a, b).ok
       /\ LruContains(csg.cache, a)
       /\ LruPeek(csg.cache, a) # CsgKeyOf(csg, a)

(***************************************************************************)
(* C7: are_linked is the equivalence closure of the pairs linked so far,   *)
(* for UnionFind.Connected and for AreLinked of both engines: reflexive    *)
(* on non-empty atoms, symmetric, transitive, and false for atoms that no  *)
(* chain of links joins.                                                   *)
(***************************************************************************)
\* AreLinked of the engine that was constructed.
Linked(a, b) ==
  IF kind = "canonical" THEN CsgAreLinked(csg, a, b).ok ELSE SgAreLinked(sg, a, b)

C7_LinkedIsClosure ==
  /\ \A a, b \in Atoms : Linked(a, b) <=> b \in LinkComponent(links, a)
  /\ \A a, b \in Atoms : Connected(csg.uf, a, b).ok = CsgAreLinked(csg, a, b).ok
  /\ \A a \in Atoms : Linked(a, a)
  /\ \A a, b \in Atoms : Linked(a, b) <=> Linked(b, a)
  /\ \A a, b, c \in Atoms : Linked(a, b) /\ Linked(b, c) => Linked(a, c)

\* A chain a - b - c built by two links, and an atom outside it.
C7_Witness ==
  \E a, b, c, d \in Atoms :
    /\ Cardinality({a, b, c, d}) = 4
    /\ links = {Pair(a, b), Pair(b, c)}
    /\ ret.op = "LinkIdentifiers"
    /\ Linked(a, c)
    /\ ~Linked(a, d)

(***************************************************************************)
(* C3: determinism across instances.  Two fresh engines of one kind that   *)
(* receive the same calls return equal keys at every step.  Both can be in *)
(* any state that the common calls reach, so the key that the next         *)
(* GetSessionKey call returns must be the same over the iteration orders   *)
(* of the maps (the hash-cache lookup key that                             *)
(* computeComponentCanonicalHash picks among them).                        *)
(***************************************************************************)
\* Every key that GetSessionKey(ids) of the constructed engine can return.
KeysOf(ids) ==
  IF kind = "canonical" THEN {r.key : r \in CsgOutcomes(csg, ids)}
  ELSE {r.key : r \in SgOutcomes(sg, ids)}

C3_Deterministic ==
  \A ids \in IdentifierMaps : Cardinality(KeysOf(ids)) = 1

(***************************************************************************)
(* C10: GetSessionKey depends only on the set of non-empty normalized      *)
(* atoms of its input (empty values dropped, email values lowercased, the  *)
(* iteration order of the map irrelevant): two inputs with the same set    *)
(* return the same key and leave the same atoms linked (both engines).     *)
(***************************************************************************)
\* The set of non-empty normalized atoms of an input.
AtomSet(ids) ==
  {<<t, IF t = "email" THEN ToLower(ids[t]) ELSE ids[t]>> :
     t \in {u \in DOMAIN ids : ids[u] # ""}}

\* What a lookup shows: the key, and the atoms linked after it.
CsgObserved(r) ==
  [key |-> r.key,
   linked |-> {p \in Atoms \X Atoms : CsgAreLinked(r.csg, p[1], p[2]).ok}]

SgObserved(r) ==
  [key |-> r.key,
   linked |-> {p \in Atoms \X Atoms : SgAreLinked(r.sg, p[1], p[2])}]

ObservedOf(ids) ==
  IF kind = "canonical" THEN {CsgObserved(r) : r \in CsgOutcomes(csg, ids)}
  ELSE {SgObserved(r) : r \in SgOutcomes(sg, ids)}

C10_DependsOnAtomSet ==
  \A ids1, ids2 \in IdentifierMaps :
    AtomSet(ids1) = AtomSet(ids2) =>
      /\ ObservedOf(ids1) = ObservedOf(ids2)
      /\ Cardinality(ObservedOf(ids1)) = 1

\* The part of C10 that holds of both engines: normalizeIdentifiers yields
\* the same sorted list for inputs with the same atom set, in any order.
C10_NormalizeOnly ==
  \A ids1, ids2 \in IdentifierMaps :
    AtomSet(ids1) = AtomSet(ids2) =>
      \A o1 \in Orders(ids1), o2 \in Orders(ids2) :
        /\ normalizeIdentifiers(ids1, o1) = normalizeIdentifiers(ids2, o2)
        /\ Range(normalizeIdentifiers(ids1, o1)) = AtomSet(ids1)

(***************************************************************************)
(* The selection rule as the specification states it.                      *)
(***************************************************************************)
\* uid > email > client > device > cookie > jwt > custom
Tiers == <<"uid", "email", "client", "device", "cookie", "jwt", "custom">>

NoTier == Len(Tiers) + 1

\* The position of the atom's type in the tiers, NoTier for any other type.
TierOf(a) ==
  IF \E i \in 1..Len(Tiers) : Tiers[i] = a[1]
  THEN CHOOSE i \in 1..Len(Tiers) : Tiers[i] = a[1]
  ELSE NoTier

LexMin(S) == CHOOSE x \in S : \A y \in S : y = x \/ LexLess(x, y)

\* The first tier that has an atom in the component, its lexicographically
\* smallest atom; without any tier, the smallest atom of the component.
ExpectedCanonical(component) ==
  LET top == CHOOSE i \in 1..NoTier :
               /\ \E a \in component : TierOf(a) = i
               /\ \A a \in component : TierOf(a) >= i
  IN LexMin({a \in component : TierOf(a) = top})

\* a is the better of two canonical atoms: higher tier, then smaller.
Better(a, b) ==
  \/ TierOf(a) < TierOf(b)
  \/ TierOf(a) = TierOf(b) /\ LexLess(a, b)

BestOf(S) == CHOOSE x \in S : \A y \in S : y = x \/ Better(x, y)

\* The component and the canonical atom of a, as the engine computes them.
CsgComponentOf(c, a) == GetComponentMembers(c.uf, a).members

CsgCanonicalOf(c, a) ==
  LET f == Find(c.uf, a) IN selectCanonical(f.uf, f.root).canonical

(***************************************************************************)
(* C6: stability of the canonical-root engine.  Across every call: the key *)
(* of an atom changes iff the canonical atom of its component changes; the *)
(* canonical atom of the component after the call is the better of the     *)
(* canonical atoms of the parts it merged; a component with a uid atom     *)
(* keeps its key when only atoms of lower tiers join it; and the key       *)
(* changes when an atom of a higher tier than any present joins.           *)
(***************************************************************************)
C6_Step ==
  kind = "canonical" =>
    \A x \in Atoms :
      LET before == CsgComponentOf(csg, x)
          after == CsgComponentOf(csg', x)
          joined == after \ before
      IN /\ CsgCanonicalOf(csg', x) = BestOf({CsgCanonicalOf(csg, y) : y \in after})
         /\ IsNormal(x) =>
              /\ (CsgKeyOf(csg', x) # CsgKeyOf(csg, x))
                   <=> (CsgCanonicalOf(csg', x) # CsgCanonicalOf(csg, x))
              /\ ((\E u \in before : TierOf(u) = 1) /\ (\A y \in joined : TierOf(y) > 1))
                   => CsgKeyOf(csg', x) = CsgKeyOf(csg, x)
              /\ (\E y \in joined : \A z \in before : TierOf(y) < TierOf(z))
                   => CsgKeyOf(csg', x) # CsgKeyOf(csg, x)

RECURSIVE LinkEach(_, _, _)
LinkEach(c, root, members) ==
  IF members = <<>> THEN c
  ELSE LinkEach(CsgLinkIdentifiers(c, root, Head(members)), root, Tail(members))

InitSelect ==
  /\ kind = "canonical"
  /\ \E cacheSize \in 1..MaxCacheSize :
       /\ \E M \in {S \in SUBSET WideAtoms : Cardinality(S) \in 2..MaxMembers} :
            \E root \in M :
              /\ csg = LinkEach(NewCanonicalSessionGenerator(cacheSize), root,
                                SeqOf(M \ {root}))
              /\ links = {Pair(root, m) : m \in M \ {root}}
       /\ sg = NewSessionGenerator(cacheSize)
       /\ csg2 = NewCanonicalSessionGenerator(cacheSize)
       /\ sg2 = NewSessionGenerator(cacheSize)
  /\ ret = NoRet
  /\ ret2 = NoRet
  /\ links2 = {}
  /\ nops = 0
  /\ called = {}
  /\ history = EmptyMap
  /\ oldToNew = EmptyMap
  /\ seen = {}
  /\ owned = {}
  /\ passed = {}
  /\ dropped = {}
  /\ mu = NoLock
  /\ th = [t \in Threads |-> IdleThread]
  /\ bare = {sg}

NextSelect ==
  \E a \in {b \in DOMAIN csg.uf.parent : IsNormal(b)} :
    CanonicalGetSessionKey(IdsOf(a), <<a[1]>>)

SpecSelect == InitSelect /\ [][NextSelect]_vars

(***************************************************************************)
(* C5: the key of the canonical-root engine is the hash of one atom of the *)
(* component: the lexicographically smallest atom of the first tier        *)
(* (uid > email > client > device > cookie > jwt > custom) present in the  *)
(* component, or the smallest atom of the component when none is; it       *)
(* depends only on the set of atoms of the component.                      *)
(***************************************************************************)
C5_CanonicalRule ==
  /\ \A a \in {b \in DOMAIN csg.uf.parent : IsNormal(b)} :
       /\ CsgKeyOf(csg, a) = SessKey(ExpectedCanonical(LinkComponent(links, a)))
       /\ ExpectedCanonical(LinkComponent(links, a)) \in CsgComponentOf(csg, a)
  /\ ret.op = "GetSessionKey" =>
       ret.val = SessKey(ExpectedCanonical(DOMAIN csg.uf.parent))

\* A lookup in a component with two uid atoms and an atom of a lower tier,
\* whose root is not the canonical atom, has returned the key of "uid:1".
C5_Witness ==
  /\ ret.op = "GetSessionKey"
  /\ ret.val = SessKey(<<"uid", "1">>)
  /\ DOMAIN csg.uf.parent = {<<"uid", "2">>, <<"uid", "1">>, <<"email", "A">>}
  /\ csg.uf.parent[<<"uid", "1">>] = <<"email", "A">>

(***************************************************************************)
(* SpecPair: two fresh engines of one kind, built by LinkIdentifiers calls *)
(* only.  The first run links any pairs of atoms; the second run links, in *)
(* any order and grouping, pairs of atoms the first run has connected.     *)
(***************************************************************************)
CanonicalLinkIdentifiers2(id1, id2) ==
  /\ kind = "canonical"
  /\ Cardinality(links2) < MaxOps
  /\ csg2' = CsgLinkIdentifiers(csg2, id1, id2)
  /\ ret2' = [op |-> "LinkIdentifiers", val |-> <<>>]
  /\ links2' = links2 \cup {Pair(id1, id2)}
  /\ UNCHANGED <<kind, csg, sg, sg2, ret, links, nops, called, wrapper>>

StructuralLinkIdentifiers2(id1, id2) ==
  /\ kind = "structural"
  /\ Cardinality(links2) < MaxOps
  /\ sg2' = SgLinkIdentifiers(sg2, id1, id2)
  /\ ret2' = [op |-> "LinkIdentifiers", val |-> <<>>]
  /\ links2' = links2 \cup {Pair(id1, id2)}
  /\ UNCHANGED <<kind, csg, sg, csg2, ret, links, nops, called, wrapper>>

NextPair ==
  \/ \E id1, id2 \in Atoms :
       /\ id1 # id2 /\ Pair(id1, id2) \notin links
       /\ CanonicalLinkIdentifiers(id1, id2)
  \/ \E id1, id2 \in Atoms :
       /\ id1 # id2 /\ Pair(id1, id2) \notin links
       /\ StructuralLinkIdentifiers(id1, id2)
  \/ \E id1, id2 \in Atoms :
       /\ id1 # id2 /\ Pair(id1, id2) \notin links2
       /\ id2 \in LinkComponent(links, id1)
       /\ CanonicalLinkIdentifiers2(id1, id2)
  \/ \E id1, id2 \in Atoms :
       /\ id1 # id2 /\ Pair(id1, id2) \notin links2
       /\ id2 \in LinkComponent(links, id1)
       /\ StructuralLinkIdentifiers2(id1, id2)

SpecPair == Init /\ [][NextPair]_vars

\* The keys GetSessionKey({a}) can return, and the component of a, in the
\* first and in the second engine.
PairKeys(run, a) ==
  IF kind = "canonical"
  THEN {CsgKeyOf(IF run = 1 THEN csg ELSE csg2, a)}
  ELSE {o.key : o \in SgOutcomes(IF run = 1 THEN sg ELSE sg2, IdsOf(a))}

PairComponent(run, a) ==
  IF kind = "canonical"
  THEN CsgComponentOf(IF run = 1 THEN csg ELSE csg2, a)
  ELSE findConnectedComponentWithoutLock(IF run = 1 THEN sg.edges ELSE sg2.edges, a)

(***************************************************************************)
(* C8: order independence of the link sequence, both engines.  Two fresh   *)
(* engines that received the same set of LinkIdentifiers calls, in any two *)
(* orders, have the same partition into components and return the same key *)
(* for every atom.                                                         *)
(***************************************************************************)
C8_LinkOrderIndependent ==
  links = links2 =>
    /\ \A a \in Atoms : PairComponent(1, a) = PairComponent(2, a)
    /\ \A a \in NormalAtoms :
         /\ PairKeys(1, a) = PairKeys(2, a)
         /\ Cardinality(PairKeys(1, a)) = 1

\* Both runs made the same three links in different orders: the union-find
\* forests differ, the components are one.
C8_Witness ==
  /\ kind = "canonical"
  /\ links = links2
  /\ Cardinality(links) = MaxOps
  /\ csg.uf # csg2.uf
  /\ RootOf(csg.uf, <<"cookie", "c">>) # RootOf(csg2.uf, <<"cookie", "c">>)
  /\ Cardinality(PairComponent(1, <<"cookie", "c">>)) >= 3

(***************************************************************************)
(* C9: structural-hash engine.  Whenever two fresh SessionGenerators have  *)
(* the same atoms in each component, however the components were joined    *)
(* (two pairs bridged through different atoms, a chain, ...),              *)
(* GetSessionKey returns the same key for every atom in both.              *)
(***************************************************************************)
C9_JoinIndependent ==
  (/\ kind = "structural"
   /\ \A a \in Atoms : PairComponent(1, a) = PairComponent(2, a))
  => \A a \in NormalAtoms : PairKeys(1, a) = PairKeys(2, a)

(***************************************************************************)
(* What the callers can observe of an engine: for every atom the keys that *)
(* GetSessionKey can return and the result of GetSessionSize.              *)
(***************************************************************************)
CsgView(c) ==
  [keys |-> [x \in NormalAtoms |-> {CsgKeyOf(c, x)}],
   sizes |-> [x \in Atoms |-> CsgGetSessionSize(c, x).size]]

SgView(s) ==
  [keys |-> [x \in NormalAtoms |-> {o.key : o \in SgOutcomes(s, IdsOf(x))}],
   sizes |-> [x \in Atoms |-> SgGetSessionSize(s, x)]]

(***************************************************************************)
(* C11: idempotent link, both engines.  In every reachable state, for      *)
(* every pair (a, b) that LinkIdentifiers was called with before, calling  *)
(* LinkIdentifiers(a, b) again changes neither GetSessionSize nor          *)
(* GetSessionKey of any atom.                                              *)
(***************************************************************************)
C11_IdempotentLink ==
  \A p \in called : \A a, b \in p :
    (a # b \/ Cardinality(p) = 1) =>
      IF kind = "canonical"
      THEN CsgView(CsgLinkIdentifiers(csg, a, b)) = CsgView(csg)
      ELSE SgView(SgLinkIdentifiers(sg, a, b)) = SgView(sg)

\* The part of C11 that holds of both engines: a call repeated right after
\* the first one changes nothing that the callers observe.
C11_ConsecutiveRepeat ==
  \A a, b \in Atoms :
    IF kind = "canonical"
    THEN LET c1 == CsgLinkIdentifiers(csg, a, b)
         IN CsgView(CsgLinkIdentifiers(c1, a, b)) = CsgView(c1)
    ELSE LET s1 == SgLinkIdentifiers(sg, a, b)
         IN SgView(SgLinkIdentifiers(s1, a, b)) = SgView(s1)

(***************************************************************************)
(* SpecCache: two canonical engines with caches of any two capacities      *)
(* receive the same calls; the cache of the second one may be purged       *)
(* between any two calls.                                                  *)
(***************************************************************************)
InitCache ==
  /\ kind = "canonical"
  /\ \E size1, size2 \in 1..MaxCacheSize :
       /\ csg = NewCanonicalSessionGenerator(size1)
       /\ csg2 = NewCanonicalSessionGenerator(size2)
       /\ sg = NewSessionGenerator(size1)
       /\ sg2 = NewSessionGenerator(size2)
  /\ ret = NoRet
  /\ ret2 = NoRet
  /\ links = {}
  /\ links2 = {}
  /\ nops = 0
  /\ called = {}
  /\ history = EmptyMap
  /\ oldToNew = EmptyMap
  /\ seen = {}
  /\ owned = {}
  /\ passed = {}
  /\ dropped = {}
  /\ mu = NoLock
  /\ th = [t \in Threads |-> IdleThread]
  /\ bare = {sg}

CacheGetSessionKey(ids, order, order2) ==
  /\ Step
  /\ LET c == CsgGetSessionKey(csg, ids, order)
         c2 == CsgGetSessionKey(csg2, ids, order2)
     IN /\ csg' = c.csg
        /\ csg2' = c2.csg
        /\ ret' = [op |-> "GetSessionKey", val |-> c.key]
        /\ ret2' = [op |-> "GetSessionKey", val |-> c2.key]
  /\ UNCHANGED <<kind, sg, sg2, links, links2, called, wrapper>>

CacheLinkIdentifiers(id1, id2) ==
  /\ Step
  /\ csg' = CsgLinkIdentifiers(csg, id1, id2)
  /\ csg2' = CsgLinkIdentifiers(csg2, id1, id2)
  /\ ret' = [op |-> "LinkIdentifiers", val |-> <<>>]
  /\ ret2' = [op |-> "LinkIdentifiers", val |-> <<>>]
  /\ UNCHANGED <<kind, sg, sg2, links, links2, called, wrapper>>

CacheAreLinked(id1, id2) ==
  /\ Step
  /\ LET c == CsgAreLinked(csg, id1, id2)
         c2 == CsgAreLinked(csg2, id1, id2)
     IN /\ csg' = c.csg
        /\ csg2' = c2.csg
        /\ ret' = [op |-> "AreLinked", val |-> c.ok]
        /\ ret2' = [op |-> "AreLinked", val |-> c2.ok]
  /\ UNCHANGED <<kind, sg, sg2, links, links2, called, wrapper>>

CacheGetSessionSize(id) ==
  /\ Step
  /\ LET c == CsgGetSessionSize(csg, id)
         c2 == CsgGetSessionSize(csg2, id)
     IN /\ csg' = c.csg
        /\ csg2' = c2.csg
        /\ ret' = [op |-> "GetSessionSize", val |-> c.size]
        /\ ret2' = [op |-> "GetSessionSize", val |-> c2.size]
  /\ UNCHANGED <<kind, sg, sg2, links, links2, called, wrapper>>

\* csg.cache.Purge() on the second engine, between two calls.
CachePurge ==
  /\ csg2.cache.items # <<>>
  /\ csg2' = [csg2 EXCEPT !.cache = LruPurge(csg2.cache)]
  /\ UNCHANGED <<kind, csg, sg, sg2, ret, ret2, links, links2, nops, called, wrapper>>

NextCache ==
  \/ \E ids \in IdentifierMaps : \E order, order2 \in Orders(ids) :
       CacheGetSessionKey(ids, order, order2)
  \/ \E id1, id2 \in Atoms \cup {EmptyId} : CacheLinkIdentifiers(id1, id2)
  \/ \E id1, id2 \in Atoms \cup {EmptyId} : CacheAreLinked(id1, id2)
  \/ \E id \in Atoms \cup {EmptyId} : CacheGetSessionSize(id)
  \/ CachePurge

SpecCache == InitCache /\ [][NextCache]_vars

(***************************************************************************)
(* C12: cache transparency of the canonical-root engine.  For any sequence *)
(* of GetSessionKey, LinkIdentifiers, AreLinked and GetSessionSize calls   *)
(* the values returned are the same whatever the cache holds: with the     *)
(* cache purged after any call, and for any two cache capacities.          *)
(***************************************************************************)
C12_CacheTransparent == ret = ret2

\* A lookup has returned the same key from an engine whose cache holds a key
\* that is no longer current and from one of another capacity whose cache
\* was purged.
C12_Witness ==
  /\ ret.op = "GetSessionKey"
  /\ ret.val # AnonymousKey
  /\ ret = ret2
  /\ csg.cache.size # csg2.cache.size
  /\ \E i \in 1..Len(csg.cache.items) :
       csg.cache.items[i].v # CsgKeyOf(csg, csg.cache.items[i].k)
  /\ csg2.cache.items = <<>>

(***************************************************************************)
(* SpecClearCache: the structural-hash engine with ClearCache among its    *)
(* calls.                                                                  *)
(***************************************************************************)
\* sg.cache.Purge(); sg.hashCache = make(map[string]string)
\* A variant of ClearCache that also drops the graph.
SgClearCacheDropsEdgesBug(s) ==
  [edges |-> EmptyMap, cache |-> LruPurge(s.cache), hashCache |-> EmptyMap]

SgClearCache(s) ==
  [edges |-> s.edges, cache |-> LruPurge(s.cache), hashCache |-> EmptyMap]

StructuralClearCache ==
  /\ kind = "structural"
  /\ Step
  /\ sg' = SgClearCache(sg)
  /\ ret' = [op |-> "ClearCache", val |-> <<>>]
  /\ UNCHANGED <<kind, csg, csg2, sg2, ret2, links, links2, called, wrapper>>

NextClearCache ==
  \/ \E ids \in IdentifierMaps : \E order \in Orders(ids) :
       StructuralGetSessionKey(ids, order)
  \/ \E id1, id2 \in Atoms \cup {EmptyId} : StructuralLinkIdentifiers(id1, id2)
  \/ StructuralClearCache

SpecClearCache == InitEngines({"structural"}) /\ [][NextClearCache]_vars

\* AreLinked of the structural engine for every pair of atoms.
SgLinkedPairs(s) == {p \in Atoms \X Atoms : SgAreLinked(s, p[1], p[2])}

(***************************************************************************)
(* C13: ClearCache of the structural-hash engine preserves the graph and   *)
(* the keys: across every ClearCache call, GetSessionKey({a}) of every     *)
(* atom a returns the same key after the call as before it, and AreLinked  *)
(* and GetSessionSize are unchanged.                                       *)
(***************************************************************************)
C13_ClearCacheKeepsKeys ==
  [][(ret'.op = "ClearCache" /\ nops' = nops + 1) =>
       /\ SgView(sg') = SgView(sg)
       /\ SgLinkedPairs(sg') = SgLinkedPairs(sg)]_vars

\* The part of C13 that holds: ClearCache leaves the graph, AreLinked and
\* GetSessionSize as they were.
C13_GraphPreserved ==
  [][(ret'.op = "ClearCache" /\ nops' = nops + 1) =>
       /\ sg'.edges = sg.edges
       /\ SgView(sg').sizes = SgView(sg).sizes
       /\ SgLinkedPairs(sg') = SgLinkedPairs(sg)]_vars

(***************************************************************************)
(* SessionGeneratorWithHistory (session_history.go): the embedded          *)
(* SessionGenerator sg, history (current key -> record) and oldToNew.      *)
(* A wrapper state is the record [sg, history, oldToNew].                  *)
(***************************************************************************)
\* The empty string where the code holds a session key.
NoKey == <<"">>

NewSessionKeyHistory(key) == [CurrentKey |-> key, OldKeys |-> <<>>]

NewSessionGeneratorWithHistory(cacheSize) ==
  [sg |-> NewSessionGenerator(cacheSize), history |-> EmptyMap, oldToNew |-> EmptyMap]

Without(f, k) == [x \in (DOMAIN f) \ {k} |-> f[x]]

\* OldKeys with the keys of more appended, those already present skipped.
RECURSIVE AppendNew(_, _)
AppendNew(oldKeys, more) ==
  IF more = <<>> THEN oldKeys
  ELSE AppendNew(IF Head(more) \in Range(oldKeys) THEN oldKeys
                 ELSE Append(oldKeys, Head(more)),
                 Tail(more))

\* sgh.oldToNew[ancestorKey] = newKey for every ancestor.
RECURSIVE PutAll(_, _, _)
PutAll(f, keys, v) ==
  IF keys = <<>> THEN f ELSE PutAll(Put(f, Head(keys), v), Tail(keys), v)

trackKeyChange(h, oldKey, newKey) ==
  IF oldKey = newKey THEN h
  ELSE LET newHistory == IF newKey \in DOMAIN h.history THEN h.history[newKey]
                         ELSE NewSessionKeyHistory(newKey)
           tracked == AppendNew(newHistory.OldKeys, <<oldKey>>)
           hadHistory == oldKey \in DOMAIN h.history
           ancestors == IF hadHistory THEN h.history[oldKey].OldKeys ELSE <<>>
           record == [CurrentKey |-> newKey, OldKeys |-> AppendNew(tracked, ancestors)]
       IN [h EXCEPT
             !.history = Without(Put(h.history, newKey, record), oldKey),
             !.oldToNew = PutAll(Put(h.oldToNew, oldKey, newKey), ancestors, newKey)]

initializeHistory(h, sessionKey) ==
  IF sessionKey \in DOMAIN h.history THEN h
  ELSE [h EXCEPT !.history = Put(h.history, sessionKey, NewSessionKeyHistory(sessionKey))]

\* The first entry with a value that the range loop over ids yields, with
\* its type prefix and without normalization; EmptyId when there is none.
RECURSIVE SampleID(_, _)
SampleID(ids, sampleOrder) ==
  IF sampleOrder = <<>> THEN EmptyId
  ELSE IF ids[Head(sampleOrder)] # "" THEN <<Head(sampleOrder), ids[Head(sampleOrder)]>>
       ELSE SampleID(ids, Tail(sampleOrder))

\* The cache entry of id, NoKey without one, and the cache after the Get.
CachedKey(s, id) ==
  IF id # EmptyId /\ LruContains(s.cache, id)
  THEN [sg |-> [s EXCEPT !.cache = LruGet(s.cache, id)], key |-> LruPeek(s.cache, id)]
  ELSE [sg |-> s, key |-> NoKey]

\* The element of a one-element set.  In Only({F(x) : x \in {e}}) the value
\* of e is computed once, however often F uses x.
Only(S) == CHOOSE x \in S : TRUE

SghGetSessionKey(h, ids, sampleOrder, order, cacheKey, addOrder) ==
  Only({Only({[h |-> IF old.key # NoKey /\ old.key # r.key
                    THEN trackKeyChange([h EXCEPT !.sg = r.sg], old.key, r.key)
                    ELSE IF old.key = NoKey
                         THEN initializeHistory([h EXCEPT !.sg = r.sg], r.key)
                         ELSE [h EXCEPT !.sg = r.sg],
               key |-> r.key] :
                r \in {SgGetSessionKey(old.sg, ids, order, cacheKey, addOrder)}}) :
          old \in {CachedKey(h.sg, SampleID(ids, sampleOrder))}})

\* The hash of the component of id, as [sg, key] with the hashCache that
\* computeComponentCanonicalHash leaves.
HashOf(s, id, cacheKey) ==
  Only({[sg |-> [s EXCEPT !.hashCache = k.hashCache], key |-> k.hash] :
          k \in {computeComponentCanonicalHash(
                   s, findConnectedComponentWithoutLock(s.edges, id), cacheKey)}})

\* The old key of id in LinkIdentifiers: the cache entry, or else the hash
\* of its component.
OldKeyOf(s, id, cacheKey) ==
  Only({IF c.key # NoKey THEN c ELSE HashOf(s, id, cacheKey) :
          c \in {CachedKey(s, id)}})

\* The two trackKeyChange calls at the end of LinkIdentifiers.
TrackBoth(h, oldKey1, oldKey2, newKey) ==
  Only({IF oldKey2 # newKey /\ oldKey2 # oldKey1
        THEN trackKeyChange(h2, oldKey2, newKey)
        ELSE h2 :
          h2 \in {IF oldKey1 # newKey THEN trackKeyChange(h, oldKey1, newKey) ELSE h}})

SghLinkIdentifiers(h, id1, id2, cacheKey1, cacheKey2) ==
  IF id1 = EmptyId \/ id2 = EmptyId THEN h
  ELSE Only({Only({Only({Only({
         TrackBoth([h EXCEPT !.sg = n.sg], o1.key, o2.key, n.key) :
           n \in {HashOf(linked, id1, id1)}}) :
           linked \in {SgLinkIdentifiers(o2.sg, id1, id2)}}) :
           o2 \in {OldKeyOf(o1.sg, id2, cacheKey2)}}) :
           o1 \in {OldKeyOf(h.sg, id1, cacheKey1)}})

GetSessionKeyHistory(h, sessionKey) ==
  LET key == IF sessionKey \in DOMAIN h.oldToNew THEN h.oldToNew[sessionKey]
             ELSE sessionKey
  IN IF key \in DOMAIN h.history THEN h.history[key]
     ELSE NewSessionKeyHistory(key)

GetAllSessionKeys(h, sessionKey) ==
  LET record == GetSessionKeyHistory(h, sessionKey)
  IN <<record.CurrentKey>> \o record.OldKeys

(***************************************************************************)
(* SpecHistory: a SessionGeneratorWithHistory and its callers.             *)
(***************************************************************************)
\* The callers of the wrapper make up to MaxHistoryOps calls, with the
\* identifiers of HistoryAtoms.
MaxHistoryOps == 4

HistoryAtoms == { <<"cookie", "c">>, <<"uid", "1">> }

HistoryMaps ==
  {m \in IdentifierMaps : \A t \in DOMAIN m : m[t] = "" \/ <<t, m[t]>> \in HistoryAtoms}

HistoryStep ==
  /\ nops < MaxHistoryOps
  /\ nops' = nops + 1

\* The hash of the component of every atom of the graph, computed from the
\* graph.
Owned(s) ==
  {<<a, ComponentFingerprint(s.edges, findConnectedComponentWithoutLock(s.edges, a))>> :
     a \in DOMAIN s.edges}

\* The wrapper state held in the variables.
Sgh == [sg |-> sg, history |-> history, oldToNew |-> oldToNew]

\* sampleOrder is the order of the wrapper's range loop over ids.  The range
\* loop of normalizeIdentifiers ends in a sort, so one order stands for all.
HistoryGetSessionKey(ids, sampleOrder) ==
  /\ kind = "history"
  /\ HistoryStep
  /\ LET order == sampleOrder
         identifiers == normalizeIdentifiers(ids, order)
         component == SgLookupComponent(sg, ids, order)
     IN \E cacheKey \in CacheKeys(component),
           addOrder \in AddOrders(component, sg.cache.size) :
          \E r \in {SghGetSessionKey(Sgh, ids, sampleOrder, order, cacheKey, addOrder)} :
             /\ sg' = r.h.sg
             /\ history' = r.h.history
             /\ oldToNew' = r.h.oldToNew
             /\ ret' = [op |-> "GetSessionKey", val |-> r.key]
             /\ seen' = seen \cup {<<a, r.key>> : a \in Range(identifiers)}
             /\ owned' = owned \cup Owned(r.h.sg)
             /\ links' = links \cup SgLookupPairs(sg, identifiers)
  /\ UNCHANGED <<kind, csg, csg2, sg2, ret2, links2, called, passed, dropped, mu, th, bare>>

HistoryLinkIdentifiers(id1, id2) ==
  /\ kind = "history"
  /\ HistoryStep
  /\ \E cacheKey1 \in findConnectedComponentWithoutLock(sg.edges, id1),
        cacheKey2 \in findConnectedComponentWithoutLock(sg.edges, id2) :
       \E h \in {SghLinkIdentifiers(Sgh, id1, id2, cacheKey1, cacheKey2)} :
          /\ sg' = h.sg
          /\ history' = h.history
          /\ oldToNew' = h.oldToNew
          /\ owned' = owned \cup Owned(h.sg)
  /\ ret' = [op |-> "LinkIdentifiers", val |-> <<>>]
  /\ links' = IF id1 = EmptyId \/ id2 = EmptyId THEN links
              ELSE links \cup {Pair(id1, id2)}
  /\ called' = IF id1 = EmptyId \/ id2 = EmptyId THEN called
               ELSE called \cup {Pair(id1, id2)}
  /\ UNCHANGED <<kind, csg, csg2, sg2, ret2, links2, seen, passed, dropped, mu, th, bare>>

NextHistory ==
  \/ \E ids \in HistoryMaps : \E sampleOrder \in Orders(ids) :
       HistoryGetSessionKey(ids, sampleOrder)
  \/ \E id1, id2 \in HistoryAtoms \cup {EmptyId} : HistoryLinkIdentifiers(id1, id2)

SpecHistory == InitEngines({"history"}) /\ [][NextHistory]_vars

\* Every result [h, key] that GetSessionKey(ids) of the wrapper can have in
\* state h, over the iteration orders of its range loops.
SghOutcomes(h, ids) ==
  UNION {LET component == SgLookupComponent(h.sg, ids, order)
         IN {SghGetSessionKey(h, ids, order, order, cacheKey, addOrder) :
               cacheKey \in CacheKeys(component),
               addOrder \in AddOrders(component, h.sg.cache.size)} :
           order \in Orders(ids)}

\* The connected components of the graph.
LiveComponents(edges) ==
  {findConnectedComponentWithoutLock(edges, n) : n \in DOMAIN edges}

\* Following oldToNew from key leaves the index within the given number of
\* steps.
RECURSIVE Resolves(_, _, _)
Resolves(index, key, steps) ==
  IF key \notin DOMAIN index THEN TRUE
  ELSE IF steps = 0 THEN FALSE
       ELSE Resolves(index, index[key], steps - 1)

(***************************************************************************)
(* C14: history completeness.  In every reachable state of the wrapper,    *)
(* for every atom a and every key k that GetSessionKey returned for a      *)
(* query containing a, k is a member of GetAllSessionKeys(current key of   *)
(* a), the current key being what GetSessionKey({a}) returns now.          *)
(***************************************************************************)
C14_HistoryComplete ==
  \A p \in seen : \A o \in SghOutcomes(Sgh, IdsOf(p[1])) :
    p[2] \in Range(GetAllSessionKeys(o.h, o.key))

(***************************************************************************)
(* C15: query by an old key.  For every key k of oldToNew and every atom a *)
(* whose component had the hash k, GetAllSessionKeys(k) contains the live  *)
(* key of a's component, which is what GetSessionKey({a}) returns now, and *)
(* equals GetAllSessionKeys of that live key.                              *)
(***************************************************************************)
C15_QueryByOldKey ==
  \A k \in DOMAIN oldToNew : \A p \in owned : p[2] = k =>
    \A o \in SghOutcomes(Sgh, IdsOf(p[1])) :
      /\ o.key \in Range(GetAllSessionKeys(o.h, k))
      /\ GetAllSessionKeys(o.h, k) = GetAllSessionKeys(o.h, o.key)

(***************************************************************************)
(* C16: history flattening.  After every wrapper operation no value of     *)
(* oldToNew is itself a key of oldToNew, and every value of oldToNew is a  *)
(* key with a history record.                                              *)
(***************************************************************************)
C16_Flattened ==
  \A k \in DOMAIN oldToNew :
    /\ oldToNew[k] \notin DOMAIN oldToNew
    /\ oldToNew[k] \in DOMAIN history

\* The second half of C16 alone: every value of oldToNew has a record.
C16_ValuesHaveRecords ==
  \A k \in DOMAIN oldToNew : oldToNew[k] \in DOMAIN history

(***************************************************************************)
(* C17: the history graph is acyclic.  No key maps to itself in oldToNew,  *)
(* no history record lists its own CurrentKey among its OldKeys, and       *)
(* following oldToNew from any superseded key reaches a live key within    *)
(* as many steps as oldToNew has keys.                                     *)
(***************************************************************************)
C17_Acyclic ==
  /\ \A k \in DOMAIN oldToNew : oldToNew[k] # k
  /\ \A k \in DOMAIN history : history[k].CurrentKey \notin Range(history[k].OldKeys)
  /\ \A k \in DOMAIN oldToNew : Resolves(oldToNew, k, Cardinality(DOMAIN oldToNew))

(***************************************************************************)
(* C18: history memory bound.  After any sequence of wrapper operations    *)
(* the number of history records is at most the number of live components  *)
(* of the graph.                                                           *)
(***************************************************************************)
C18_MemoryBound ==
  Cardinality(DOMAIN history) <= Cardinality(LiveComponents(sg.edges))

(***************************************************************************)
(* SpecQuery: callers that look up, link and query either engine.          *)
(***************************************************************************)
\* The other fields of the state, which the callers of SpecQuery leave.
others == <<kind, csg2, sg2, ret2, links2, history, oldToNew, seen, owned, dropped, mu, th, bare>>

QueryGetSessionKey(ids, order) ==
  /\ Step
  /\ LET identifiers == normalizeIdentifiers(ids, order)
         component == SgLookupComponent(sg, ids, order)
     IN /\ passed' = passed \cup Range(identifiers)
        /\ IF kind = "canonical"
           THEN \E c \in {CsgGetSessionKey(csg, ids, order)} :
                  /\ csg' = c.csg
                  /\ sg' = sg
                  /\ ret' = [op |-> "GetSessionKey", val |-> c.key]
                  /\ links' = links \cup
                       (IF identifiers = <<>> THEN {} ELSE CsgLookupPairs(identifiers))
           ELSE \E cacheKey \in CacheKeys(component),
                   addOrder \in AddOrders(component, sg.cache.size) :
                  \E s \in {SgGetSessionKey(sg, ids, order, cacheKey, addOrder)} :
                    /\ sg' = s.sg
                    /\ csg' = csg
                    /\ ret' = [op |-> "GetSessionKey", val |-> s.key]
                    /\ links' = links \cup SgLookupPairs(sg, identifiers)
  /\ UNCHANGED <<others, called>>

QueryLinkIdentifiers(id1, id2) ==
  /\ Step
  /\ IF kind = "canonical"
     THEN csg' = CsgLinkIdentifiers(csg, id1, id2) /\ sg' = sg
     ELSE sg' = SgLinkIdentifiers(sg, id1, id2) /\ csg' = csg
  /\ ret' = [op |-> "LinkIdentifiers", val |-> <<>>]
  /\ links' = IF id1 = EmptyId \/ id2 = EmptyId THEN links
              ELSE links \cup {Pair(id1, id2)}
  /\ called' = IF id1 = EmptyId \/ id2 = EmptyId THEN called
               ELSE called \cup {Pair(id1, id2)}
  /\ passed' = passed \cup ({id1, id2} \ {EmptyId})
  /\ UNCHANGED others

QueryAreLinked(id1, id2) ==
  /\ Step
  /\ IF kind = "canonical"
     THEN \E c \in {CsgAreLinked(csg, id1, id2)} :
            /\ csg' = c.csg
            /\ ret' = [op |-> "AreLinked", val |-> <<id1, id2, c.ok>>]
     ELSE /\ csg' = csg
          /\ ret' = [op |-> "AreLinked", val |-> <<id1, id2, SgAreLinked(sg, id1, id2)>>]
  /\ UNCHANGED <<others, sg, links, called, passed>>

QueryGetSessionSize(id) ==
  /\ Step
  /\ IF kind = "canonical"
     THEN \E c \in {CsgGetSessionSize(csg, id)} :
            /\ csg' = c.csg
            /\ ret' = [op |-> "GetSessionSize", val |-> <<id, c.size>>]
     ELSE /\ csg' = csg
          /\ ret' = [op |-> "GetSessionSize", val |-> <<id, SgGetSessionSize(sg, id)>>]
  /\ UNCHANGED <<others, sg, links, called, passed>>

NextQuery ==
  \/ \E ids \in IdentifierMaps : \E order \in Orders(ids) : QueryGetSessionKey(ids, order)
  \/ \E id1, id2 \in Atoms \cup {EmptyId} : QueryLinkIdentifiers(id1, id2)
  \/ \E id1, id2 \in Atoms \cup {EmptyId} : QueryAreLinked(id1, id2)
  \/ \E id \in Atoms \cup {EmptyId} : QueryGetSessionSize(id)

SpecQuery == Init /\ [][NextQuery]_vars

\* GetSessionSize of the engine that was constructed.
Size(a) ==
  IF kind = "canonical" THEN CsgGetSessionSize(csg, a).size ELSE SgGetSessionSize(sg, a)

\* What the claim C19 gives for GetSessionSize(a).
ClaimedSize(a) ==
  IF a = EmptyId \/ a \notin passed THEN 0
  ELSE Cardinality(LinkComponent(links, a))

(***************************************************************************)
(* C19: GetSessionSize(atom), both engines, returns the number of atoms in *)
(* the atom's component, 0 for the empty string, and 0 for an atom that    *)
(* was never passed to any lookup or link: every call of GetSessionSize    *)
(* returned that number.                                                   *)
(***************************************************************************)
C19_SessionSize ==
  ret.op = "GetSessionSize" => ret.val[2] = ClaimedSize(ret.val[1])

\* C19 without its last case: the size of the component for an atom that
\* was passed to a lookup or a link, and 0 for the empty string.
C19_SizeOfPassed ==
  /\ \A a \in passed \cup {EmptyId} : Size(a) = ClaimedSize(a)
  /\ ret.op = "GetSessionSize" /\ ret.val[1] \in passed \cup {EmptyId}
       => ret.val[2] = ClaimedSize(ret.val[1])

\* The arguments for which the claim C20 gives false.
ClaimedUnlinked(a, b) ==
  \/ a = EmptyId
  \/ b = EmptyId
  \/ a # b /\ (a \notin passed \/ b \notin passed)

(***************************************************************************)
(* C20: AreLinked(a, b), both engines, returns false whenever a or b is    *)
(* the empty string, and false whenever a and b are distinct and at least  *)
(* one of them was never passed to any lookup or link: in every reachable  *)
(* state for every pair, and for every call made.                          *)
(***************************************************************************)
C20_AreLinkedFalse ==
  /\ \A a, b \in Atoms \cup {EmptyId} : ClaimedUnlinked(a, b) => ~Linked(a, b)
  /\ ret.op = "AreLinked" /\ ClaimedUnlinked(ret.val[1], ret.val[2]) => ~ret.val[3]

\* AreLinked was called with an atom of a component of two or more atoms
\* and an atom never passed to a lookup or a link, and returned false.
C20_Witness ==
  /\ ret.op = "AreLinked"
  /\ ret.val[1] \in passed
  /\ ret.val[2] \notin passed \cup {EmptyId}
  /\ Cardinality(LinkComponent(links, ret.val[1])) >= 2
  /\ ~ret.val[3]

(***************************************************************************)
(* SpecEngines: the three engines, each with its callers.                  *)
(***************************************************************************)
NextEngines == Next \/ NextHistory

SpecEngines ==
  InitEngines({"canonical", "structural", "history"}) /\ [][NextEngines]_vars

\* ids has an entry with a non-empty value.
HasValue(ids) == \E t \in DOMAIN ids : ids[t] # ""

\* Every key that GetSessionKey(ids) of the constructed engine can return in
\* the current state, over the orders of the range loops that the key can
\* depend on (the order in which the cache is filled is not one of them).
LookupKeys(ids) ==
  IF kind = "canonical" THEN {o.key : o \in CsgOutcomes(csg, ids)}
  ELSE UNION {LET component == SgLookupComponent(sg, ids, order)
                  addOrder == SeqOf(component)
              IN {IF kind = "structural"
                  THEN SgGetSessionKey(sg, ids, order, cacheKey, addOrder).key
                  ELSE SghGetSessionKey(Sgh, ids, order, order, cacheKey, addOrder).key :
                    cacheKey \in CacheKeys(component)} :
                order \in Orders(ids)}

\* fmt.Sprintf("sess_%x", ...): a key made of the prefix and a hash.
IsHashKey(k) == Len(k) = 2 /\ k[1] = "sess" /\ k[2][1] = "sha256"

(***************************************************************************)
(* C21: in every reachable state of each of the three engines,             *)
(* GetSessionKey returns sess_anonymous exactly when its input has no      *)
(* entry with a non-empty value; for an input with a non-empty value it    *)
(* returns a key made of sess_ and a hash, never sess_anonymous or         *)
(* sess_empty.                                                             *)
(***************************************************************************)
C21_AnonymousSentinel ==
  \A ids \in IdentifierMaps : \A k \in LookupKeys(ids) :
    /\ k = AnonymousKey <=> ~HasValue(ids)
    /\ HasValue(ids) => IsHashKey(k) /\ k \notin {AnonymousKey, EmptyKey}

\* A lookup without values returned the sentinel on an engine that holds
\* atoms, where a lookup with a value returns a hash key.
C21_Witness ==
  /\ ret = [op |-> "GetSessionKey", val |-> AnonymousKey]
  /\ links # {}
  /\ \E ids \in IdentifierMaps :
       /\ \E t \in DOMAIN ids : ids[t] = ""
       /\ HasValue(ids)
       /\ \A k \in LookupKeys(ids) : IsHashKey(k)

(***************************************************************************)
(* C22: empty inputs are no-ops.  A LinkIdentifiers call with an empty     *)
(* string as either argument, and a GetSessionKey call whose input has no  *)
(* non-empty value, leave the whole state unchanged: atoms, components,    *)
(* cache entries and, for the history wrapper, the history records and the *)
(* reverse index.                                                          *)
(***************************************************************************)
\* A LinkIdentifiers step of any engine with an empty argument.
EmptyLink ==
  \E id \in Atoms \cup {EmptyId} :
    \/ CanonicalLinkIdentifiers(EmptyId, id) \/ CanonicalLinkIdentifiers(id, EmptyId)
    \/ StructuralLinkIdentifiers(EmptyId, id) \/ StructuralLinkIdentifiers(id, EmptyId)
    \/ HistoryLinkIdentifiers(EmptyId, id) \/ HistoryLinkIdentifiers(id, EmptyId)

\* A GetSessionKey step of CanonicalSessionGenerator or SessionGenerator
\* whose input has no non-empty value.
EmptyLookup ==
  \E ids \in {m \in IdentifierMaps : ~HasValue(m)} : \E order \in Orders(ids) :
    CanonicalGetSessionKey(ids, order) \/ StructuralGetSessionKey(ids, order)

\* The same step of the history wrapper.
EmptyHistoryLookup ==
  \E ids \in {m \in HistoryMaps : ~HasValue(m)} : \E order \in Orders(ids) :
    HistoryGetSessionKey(ids, order)

\* The state of the claim: the engines and the wrapper's two maps.
engineState == <<csg, sg, history, oldToNew>>

C22_EmptyInputsNoOp ==
  [][EmptyLink \/ EmptyLookup \/ EmptyHistoryLookup => UNCHANGED engineState]_vars

\* C22 without the lookups of the history wrapper.
C22_EnginesNoOp ==
  [][EmptyLink \/ EmptyLookup => UNCHANGED engineState]_vars

\* C22 for the history wrapper's lookup, without the history records.
C22_HistoryLookupKeepsGraph ==
  [][EmptyHistoryLookup => UNCHANGED <<csg, sg, oldToNew>>]_vars

(***************************************************************************)
(* SpecConstruct: the caller constructs an engine with a cache size that   *)
(* may be zero or negative, and uses the engine it got.                    *)
(***************************************************************************)
CacheSizes == -1..MaxCacheSize

Nil == [nil |-> TRUE]

NoErr == "nil"

\* lru.New: an error and no cache unless the size is positive.
lruNew(size) ==
  IF size <= 0 THEN [cache |-> Nil, err |-> "must provide a positive size"]
  ELSE [cache |-> NewLru(size), err |-> NoErr]

\* fmt.Errorf("failed to create LRU cache: %w", err)
Errorf(err) == "failed to create LRU cache: " \o err

SgNewIgnoreErrBug(cacheSize) ==
  [engine |-> NewSessionGenerator(cacheSize), err |-> NoErr]

\* The constructors with their error result: [engine, err].
CsgNew(cacheSize) ==
  Only({IF c.err # NoErr THEN [engine |-> Nil, err |-> Errorf(c.err)]
        ELSE [engine |-> [uf |-> NewUnionFind, cache |-> c.cache], err |-> NoErr] :
          c \in {lruNew(cacheSize)}})

SgNew(cacheSize) ==
  Only({IF c.err # NoErr THEN [engine |-> Nil, err |-> Errorf(c.err)]
        ELSE [engine |-> [edges |-> EmptyMap, cache |-> c.cache, hashCache |-> EmptyMap],
              err |-> NoErr] :
          c \in {lruNew(cacheSize)}})

SghNew(cacheSize) ==
  Only({IF s.err # NoErr THEN [engine |-> Nil, err |-> s.err]
        ELSE [engine |-> [sg |-> s.engine, history |-> EmptyMap, oldToNew |-> EmptyMap],
              err |-> NoErr] :
          s \in {SgNew(cacheSize)}})

InitConstruct ==
  /\ kind = "none"
  /\ csg = Nil
  /\ sg = Nil
  /\ csg2 = Nil
  /\ sg2 = Nil
  /\ ret = NoRet
  /\ ret2 = NoRet
  /\ links = {}
  /\ links2 = {}
  /\ nops = 0
  /\ called = {}
  /\ history = EmptyMap
  /\ oldToNew = EmptyMap
  /\ seen = {}
  /\ owned = {}
  /\ passed = {}
  /\ dropped = {}
  /\ mu = NoLock
  /\ th = [t \in Threads |-> IdleThread]
  /\ bare = {sg}

\* What the caller keeps of a constructor's results: the engine in the
\* variable of its kind, and the call with its error in ret.
Constructed(k, cacheSize, r) ==
  /\ kind' = IF r.err # NoErr THEN "none" ELSE k
  /\ ret' = [op |-> "New", val |-> <<k, cacheSize, r.err>>]
  /\ UNCHANGED <<csg2, sg2, ret2, links, links2, nops, called, seen, owned, passed, dropped, mu, th, bare>>

NewCanonical(cacheSize) ==
  /\ kind = "none"
  /\ \E r \in {CsgNew(cacheSize)} :
       /\ csg' = r.engine
       /\ Constructed("canonical", cacheSize, r)
  /\ UNCHANGED <<sg, history, oldToNew>>

NewStructural(cacheSize) ==
  /\ kind = "none"
  /\ \E r \in {SgNew(cacheSize)} :
       /\ sg' = r.engine
       /\ Constructed("structural", cacheSize, r)
  /\ UNCHANGED <<csg, history, oldToNew>>

NewHistory(cacheSize) ==
  /\ kind = "none"
  /\ \E r \in {SghNew(cacheSize)} :
       /\ sg' = IF r.err # NoErr THEN Nil ELSE r.engine.sg
       /\ history' = IF r.err # NoErr THEN history ELSE r.engine.history
       /\ oldToNew' = IF r.err # NoErr THEN oldToNew ELSE r.engine.oldToNew
       /\ Constructed("history", cacheSize, r)
  /\ UNCHANGED csg

NextConstruct ==
  \/ \E cacheSize \in CacheSizes : NewCanonical(cacheSize)
  \/ \E cacheSize \in CacheSizes : NewStructural(cacheSize)
  \/ \E cacheSize \in CacheSizes : NewHistory(cacheSize)
  \/ NextEngines

SpecConstruct == InitConstruct /\ [][NextConstruct]_vars

\* The engine the caller holds after a constructor call of kind k.
EngineOf(k) == IF k = "canonical" THEN csg ELSE sg

\* A usable empty engine of kind k with the given cache size: no atom, no
\* component, an empty cache of that size, no history, and every lookup
\* with a value returns a key.
IsEmptyEngine(k, cacheSize) ==
  /\ kind = k
  /\ EngineOf(k).cache = [size |-> cacheSize, items |-> <<>>]
  /\ k = "canonical" => csg.uf.parent = EmptyMap /\ csg.uf.rank = EmptyMap
  /\ k # "canonical" => sg.edges = EmptyMap /\ sg.hashCache = EmptyMap
  /\ k = "history" => history = EmptyMap /\ oldToNew = EmptyMap
  /\ \A ids \in IdentifierMaps : HasValue(ids) =>
       LookupKeys(ids) # {} /\ \A key \in LookupKeys(ids) : IsHashKey(key)

(***************************************************************************)
(* C23: construction is the only operation that can fail.  Each of the     *)
(* three constructors returns an error and no engine when cacheSize <= 0,  *)
(* and a usable empty engine with no error for every positive cacheSize.   *)
(***************************************************************************)
C23_ConstructorError ==
  ret.op = "New" =>
    /\ ret.val[2] <= 0 =>
         /\ ret.val[3] # NoErr
         /\ EngineOf(ret.val[1]) = Nil
         /\ kind = "none"
    /\ ret.val[2] > 0 =>
         /\ ret.val[3] = NoErr
         /\ IsEmptyEngine(ret.val[1], ret.val[2])

C23_Witness ==
  /\ ret.op = "New"
  /\ ret.val[1] = "history"
  /\ ret.val[2] = 0
  /\ ret.val[3] # NoErr
  /\ sg = Nil

(***************************************************************************)
(* Clear, GetStats and GetAllSessions.                                     *)
(***************************************************************************)
\* UnionFind.Clear
UfClear(uf) == [parent |-> EmptyMap, rank |-> EmptyMap]

CsgClear(c) == [uf |-> UfClear(c.uf), cache |-> LruPurge(c.cache)]

\* A variant of Clear that keeps the hash cache.
SgClearKeepsHashesBug(s) ==
  [edges |-> EmptyMap, cache |-> LruPurge(s.cache), hashCache |-> s.hashCache]

SgClear(s) ==
  [edges |-> EmptyMap, cache |-> LruPurge(s.cache), hashCache |-> EmptyMap]

SghClear(h) == [sg |-> SgClear(h.sg), history |-> EmptyMap, oldToNew |-> EmptyMap]

\* UnionFind.GetAllComponents: root -> members, with the path of every node
\* compressed.
GetAllComponents(uf) ==
  LET nodes == DOMAIN uf.parent
  IN [uf |-> FindEach(uf, SeqOf(nodes)),
      components |-> [root \in {RootOf(uf, n) : n \in nodes} |->
                        {n \in nodes : RootOf(uf, n) = root}]]

Stats(totalIdentifiers, totalSessions, cacheSize) ==
  [TotalIdentifiers |-> totalIdentifiers, TotalSessions |-> totalSessions,
   CacheSize |-> cacheSize]

CsgGetStats(c) ==
  Only({[csg |-> [c EXCEPT !.uf = g.uf],
         stats |-> Stats(Cardinality(DOMAIN g.uf.parent),
                         Cardinality(DOMAIN g.components), Len(c.cache.items))] :
          g \in {GetAllComponents(c.uf)}})

\* sessions[sessionKey] = members for the roots in the order visit.
RECURSIVE CsgSessionsFrom(_, _, _, _)
CsgSessionsFrom(uf, components, visit, sessions) ==
  IF visit = <<>> THEN [uf |-> uf, sessions |-> sessions]
  ELSE LET root == Head(visit)
           c == selectCanonical(uf, root)
       IN CsgSessionsFrom(c.uf, components, Tail(visit),
                          Put(sessions, generateSessionKey(c.canonical), components[root]))

\* CanonicalSessionGenerator.GetAllSessions: visit is the order of the range
\* loop over the components.
CsgGetAllSessions(c, visit) ==
  Only({Only({[csg |-> [c EXCEPT !.uf = r.uf], sessions |-> r.sessions] :
                r \in {CsgSessionsFrom(g.uf, g.components, visit, EmptyMap)}}) :
          g \in {GetAllComponents(c.uf)}})

\* The loop of SessionGenerator.GetAllSessions over the components in the
\* order visit; pick[component] is the node computeComponentCanonicalHash
\* looks up in the hash cache.
RECURSIVE SgSessionsFrom(_, _, _, _)
SgSessionsFrom(s, visit, pick, sessions) ==
  IF visit = <<>> THEN [sg |-> s, sessions |-> sessions]
  ELSE LET component == Head(visit)
           h == computeComponentCanonicalHash(s, component, pick[component])
       IN SgSessionsFrom([s EXCEPT !.hashCache = h.hashCache], Tail(visit), pick,
                         Put(sessions, h.hash, component))

SgGetAllSessions(s, visit, pick) == SgSessionsFrom(s, visit, pick, EmptyMap)

SgGetStats(s, visit, pick) ==
  Only({[sg |-> g.sg,
         stats |-> Stats(Cardinality(DOMAIN s.edges), Cardinality(DOMAIN g.sessions),
                         Len(s.cache.items))] :
          g \in {SgGetAllSessions(s, visit, pick)}})

\* The orders and the hash cache lookups of GetAllSessions in state s.
Visits(s) == Injective(LiveComponents(s.edges), Cardinality(LiveComponents(s.edges)))

Picks(s) ==
  {p \in [LiveComponents(s.edges) -> DOMAIN s.edges] :
     \A component \in LiveComponents(s.edges) : p[component] \in component}

\* The orders of the range loop of CanonicalSessionGenerator.GetAllSessions.
Roots(uf) == {RootOf(uf, n) : n \in DOMAIN uf.parent}

CsgVisits(c) == Injective(Roots(c.uf), Cardinality(Roots(c.uf)))

(***************************************************************************)
(* SpecStats: callers that look up, link, clear and inspect any of the     *)
(* three engines.                                                          *)
(***************************************************************************)
twin == <<kind, csg2, sg2, ret2, links, links2, called, seen, owned>>

\* The wrapper's lookup is SessionGenerator's lookup followed by the history
\* update, which only the wrapper keeps.
StatsGetSessionKey(ids, order) ==
  /\ Step
  /\ LET identifiers == normalizeIdentifiers(ids, order)
         component == SgLookupComponent(sg, ids, order)
     IN /\ passed' = passed \cup Range(identifiers)
        /\ IF kind = "canonical"
           THEN \E c \in {CsgGetSessionKey(csg, ids, order)} :
                  /\ csg' = c.csg
                  /\ ret' = [op |-> "GetSessionKey", val |-> c.key]
                  /\ UNCHANGED <<sg, history, oldToNew>>
           ELSE \E cacheKey \in CacheKeys(component),
                   addOrder \in AddOrders(component, sg.cache.size) :
                  \E r \in {SghGetSessionKey(Sgh, ids, order, order, cacheKey, addOrder)} :
                    /\ sg' = r.h.sg
                    /\ history' = IF kind = "history" THEN r.h.history ELSE history
                    /\ oldToNew' = IF kind = "history" THEN r.h.oldToNew ELSE oldToNew
                    /\ ret' = [op |-> "GetSessionKey", val |-> r.key]
                    /\ csg' = csg
  /\ UNCHANGED <<twin, dropped, mu, th, bare>>

StatsLinkIdentifiers(id1, id2) ==
  /\ Step
  /\ IF kind = "canonical"
     THEN csg' = CsgLinkIdentifiers(csg, id1, id2) /\ UNCHANGED <<sg, history, oldToNew>>
     ELSE IF kind = "structural"
          THEN sg' = SgLinkIdentifiers(sg, id1, id2) /\ UNCHANGED <<csg, history, oldToNew>>
          ELSE \E cacheKey1 \in findConnectedComponentWithoutLock(sg.edges, id1),
                  cacheKey2 \in findConnectedComponentWithoutLock(sg.edges, id2) :
                 \E h \in {SghLinkIdentifiers(Sgh, id1, id2, cacheKey1, cacheKey2)} :
                   /\ sg' = h.sg
                   /\ history' = h.history
                   /\ oldToNew' = h.oldToNew
                   /\ csg' = csg
  /\ ret' = [op |-> "LinkIdentifiers", val |-> <<>>]
  /\ passed' = IF id1 = EmptyId \/ id2 = EmptyId THEN passed ELSE passed \cup {id1, id2}
  /\ UNCHANGED <<twin, dropped, mu, th, bare>>

StatsClear ==
  /\ Step
  /\ IF kind = "canonical"
     THEN csg' = CsgClear(csg) /\ UNCHANGED <<sg, history, oldToNew>>
     ELSE IF kind = "structural"
          THEN sg' = SgClear(sg) /\ UNCHANGED <<csg, history, oldToNew>>
          ELSE \E h \in {SghClear(Sgh)} :
                 /\ sg' = h.sg
                 /\ history' = h.history
                 /\ oldToNew' = h.oldToNew
                 /\ csg' = csg
  /\ ret' = [op |-> "Clear", val |-> <<>>]
  /\ passed' = {}
  /\ dropped' = passed
  /\ UNCHANGED <<twin, mu, th, bare>>

StatsGetStats ==
  /\ Step
  /\ IF kind = "canonical"
     THEN \E c \in {CsgGetStats(csg)} :
            /\ csg' = c.csg
            /\ ret' = [op |-> "GetStats", val |-> c.stats]
            /\ sg' = sg
     ELSE \E visit \in Visits(sg), pick \in Picks(sg) :
            \E s \in {SgGetStats(sg, visit, pick)} :
              /\ sg' = s.sg
              /\ ret' = [op |-> "GetStats", val |-> s.stats]
              /\ csg' = csg
  /\ UNCHANGED <<twin, history, oldToNew, passed, dropped, mu, th, bare>>

StatsGetAllSessions ==
  /\ Step
  /\ IF kind = "canonical"
     THEN \E visit \in CsgVisits(csg) :
            \E c \in {CsgGetAllSessions(csg, visit)} :
              /\ csg' = c.csg
              /\ ret' = [op |-> "GetAllSessions", val |-> c.sessions]
              /\ sg' = sg
     ELSE \E visit \in Visits(sg), pick \in Picks(sg) :
            \E s \in {SgGetAllSessions(sg, visit, pick)} :
              /\ sg' = s.sg
              /\ ret' = [op |-> "GetAllSessions", val |-> s.sessions]
              /\ csg' = csg
  /\ UNCHANGED <<twin, history, oldToNew, passed, dropped, mu, th, bare>>

NextStats ==
  \/ \E ids \in IdentifierMaps : \E order \in Orders(ids) : StatsGetSessionKey(ids, order)
  \/ \E id1, id2 \in Atoms \cup {EmptyId} : StatsLinkIdentifiers(id1, id2)
  \/ StatsClear
  \/ StatsGetStats
  \/ StatsGetAllSessions

SpecStats == InitEngines({"canonical", "structural", "history"}) /\ [][NextStats]_vars

\* Every Stats value GetStats can return in the current state; for the
\* wrapper with the two counters of GetStatsWithHistory.
StatsNow ==
  IF kind = "canonical" THEN {CsgGetStats(csg).stats}
  ELSE {SgGetStats(sg, visit, pick).stats : visit \in Visits(sg), pick \in Picks(sg)}

TotalHistoricalKeys == Cardinality(DOMAIN oldToNew)

SessionsWithHistory == Cardinality({k \in DOMAIN history : history[k].OldKeys # <<>>})

\* The state of a newly constructed engine of the same kind and cache size.
IsFresh ==
  /\ kind = "canonical" => csg = NewCanonicalSessionGenerator(csg.cache.size)
  /\ kind # "canonical" => sg = NewSessionGenerator(sg.cache.size)
  /\ history = EmptyMap
  /\ oldToNew = EmptyMap

(***************************************************************************)
(* C24: Clear drops all state.  After Clear, GetStats reports 0            *)
(* identifiers, 0 sessions and an empty cache (for the wrapper also no     *)
(* history records and no superseded keys), and the engine is in the state *)
(* of a fresh engine, so that every later sequence of operations returns   *)
(* the same values as on a fresh engine.                                   *)
(***************************************************************************)
C24_ClearDropsAll ==
  ret.op = "Clear" =>
    /\ StatsNow = {Stats(0, 0, 0)}
    /\ TotalHistoricalKeys = 0
    /\ SessionsWithHistory = 0
    /\ IsFresh

C24_Witness ==
  /\ ret.op = "Clear"
  /\ kind = "history"
  /\ Cardinality(dropped) = 2

(***************************************************************************)
(* C25: statistics consistency.  GetStats().TotalIdentifiers is the number *)
(* of distinct atoms passed to GetSessionKey or LinkIdentifiers;           *)
(* TotalSessions is the number of connected components, which is the       *)
(* number of entries of GetAllSessions; the member lists of GetAllSessions *)
(* partition the atoms.                                                    *)
(***************************************************************************)
\* The atoms and the components of the engine.
TrackedAtoms == IF kind = "canonical" THEN DOMAIN csg.uf.parent ELSE DOMAIN sg.edges

Components ==
  IF kind = "canonical"
  THEN {{n \in DOMAIN csg.uf.parent : RootOf(csg.uf, n) = root} : root \in Roots(csg.uf)}
  ELSE LiveComponents(sg.edges)

\* Every map GetAllSessions can return in the current state.
SessionsNow ==
  IF kind = "canonical"
  THEN {CsgGetAllSessions(csg, visit).sessions : visit \in CsgVisits(csg)}
  ELSE {SgGetAllSessions(sg, visit, pick).sessions : visit \in Visits(sg), pick \in Picks(sg)}

\* The member lists of sessions partition the atoms of S.
Partitions(sessions, S) ==
  /\ UNION {sessions[k] : k \in DOMAIN sessions} = S
  /\ \A k \in DOMAIN sessions : sessions[k] # {}
  /\ \A k1, k2 \in DOMAIN sessions : k1 # k2 => sessions[k1] \cap sessions[k2] = {}

C25_StatsConsistent ==
  /\ ret.op = "GetStats" =>
       /\ ret.val.TotalIdentifiers = Cardinality(passed)
       /\ ret.val.TotalSessions = Cardinality(Components)
       /\ \A sessions \in SessionsNow :
            ret.val.TotalSessions = Cardinality(DOMAIN sessions)
  /\ ret.op = "GetAllSessions" =>
       /\ Cardinality(DOMAIN ret.val) = Cardinality(Components)
       /\ Partitions(ret.val, passed)

\* C25 with the atoms the engine tracks in the place of the atoms passed.
C25_TrackedConsistent ==
  /\ ret.op = "GetStats" =>
       /\ ret.val.TotalIdentifiers = Cardinality(TrackedAtoms)
       /\ ret.val.TotalSessions = Cardinality(Components)
       /\ \A sessions \in SessionsNow :
            ret.val.TotalSessions = Cardinality(DOMAIN sessions)
  /\ ret.op = "GetAllSessions" =>
       /\ Cardinality(DOMAIN ret.val) = Cardinality(Components)
       /\ Partitions(ret.val, TrackedAtoms)

\* C25 for CanonicalSessionGenerator.
C25_CanonicalConsistent == kind = "canonical" => C25_StatsConsistent

(***************************************************************************)
(* SpecThreads: after up to MaxSetup links made by one thread, two threads *)
(* call LinkIdentifiers, AreLinked and GetSessionSize of one               *)
(* CanonicalSessionGenerator concurrently, one call each.  A step is one   *)
(* call of sync.RWMutex, one critical section of UnionFind or one call of  *)
(* the LRU cache, which has its own lock.                                  *)
(***************************************************************************)
MaxSetup == 2

\* sync.RWMutex.  Lock: the caller takes w, which keeps new readers out,
\* and holds the lock once the readers have left.
CanRLock(m) == m.w = Nobody

RLock(m, t) == [m EXCEPT !.readers[t] = @ + 1]

RUnlock(m, t) == [m EXCEPT !.readers[t] = @ - 1]

CanLock(m) == m.w = Nobody

Lock(m, t) == [m EXCEPT !.w = t]

HoldsLock(m, t) == m.w = t /\ \A u \in Threads : m.readers[u] = 0

Unlock(m, t) == [m EXCEPT !.w = Nobody]

\* The pairs of the setup, and the pairs of the threads.
SetupPairs == {p \in Atoms \X Atoms : LexLess(p[1], p[2])}

ThreadPairs == {p \in Atoms \X Atoms : p[1] # p[2]}

\* The state the threads of SpecThreads leave alone.
unthreaded ==
  <<kind, sg, csg2, sg2, ret, ret2, links2, called, history, oldToNew, seen, owned,
    passed, dropped, bare>>

\* The root of id, following the parent pointers.
RECURSIVE Top(_, _)
Top(parent, id) == IF parent[id] = id THEN id ELSE Top(parent, parent[id])

\* a and b are known and in the same set.
SameSet(uf, a, b) ==
  /\ a \in DOMAIN uf.parent
  /\ b \in DOMAIN uf.parent
  /\ Top(uf.parent, a) = Top(uf.parent, b)

SetupLink(a, b) ==
  /\ kind = "canonical"
  /\ \A t \in Threads : th[t].pc = "idle"
  /\ nops < MaxSetup
  /\ nops' = nops + 1
  /\ csg' = CsgLinkIdentifiers(csg, a, b)
  /\ links' = links \cup {Pair(a, b)}
  /\ UNCHANGED <<unthreaded, mu, th, bare>>

\* LinkIdentifiers(a, b) up to its first call, uf.Connected.
StartLinkIdentifiers(t, a, b) ==
  /\ kind = "canonical"
  /\ th[t].pc = "idle"
  /\ th' = [th EXCEPT ![t] = [IdleThread EXCEPT !.pc = "connected1",
                                                 !.op = "LinkIdentifiers",
                                                 !.a = a, !.b = b]]
  /\ links' = links \cup {Pair(a, b)}
  /\ UNCHANGED <<unthreaded, csg, mu, nops>>

\* AreLinked(a, b) up to uf.Connected; pre: a and b are connected when the
\* call starts.
StartAreLinked(t, a, b) ==
  /\ kind = "canonical"
  /\ th[t].pc = "idle"
  /\ th' = [th EXCEPT ![t] = [IdleThread EXCEPT !.pc = "connected1",
                                                 !.op = "AreLinked",
                                                 !.a = a, !.b = b,
                                                 !.pre = SameSet(csg.uf, a, b)]]
  /\ UNCHANGED <<unthreaded, csg, mu, nops, links>>

\* GetSessionSize(a) up to uf.ComponentSize.
StartGetSessionSize(t, a) ==
  /\ kind = "canonical"
  /\ th[t].pc = "idle"
  /\ th' = [th EXCEPT ![t] = [IdleThread EXCEPT !.pc = "size_find",
                                                 !.op = "GetSessionSize", !.a = a]]
  /\ UNCHANGED <<unthreaded, csg, mu, nops, links>>

\* uf.mu.Lock() of Find, Union and GetComponentMembers.
CallLock(t) ==
  /\ th[t].pc \in {"connected1", "connected2", "union", "size_find",
                    "get_find", "get_union", "get_select"}
  /\ CanLock(mu)
  /\ mu' = Lock(mu, t)
  /\ UNCHANGED <<unthreaded, csg, th, nops, links>>

\* Connected: uf.Find(id1), up to the Unlock.
Connected1(t) ==
  /\ th[t].pc = "connected1"
  /\ HoldsLock(mu, t)
  /\ \E f \in {Find(csg.uf, th[t].a)} :
       /\ csg' = [csg EXCEPT !.uf = f.uf]
       /\ th' = [th EXCEPT ![t].pc = "connected2", ![t].root = f.root, ![t].found = f.root]
  /\ mu' = Unlock(mu, t)
  /\ UNCHANGED <<unthreaded, nops, links>>

\* Connected: uf.Find(id2) and the comparison; LinkIdentifiers returns if
\* the roots are equal.
Connected2(t) ==
  /\ th[t].pc = "connected2"
  /\ HoldsLock(mu, t)
  /\ \E f \in {Find(csg.uf, th[t].b)} :
       /\ csg' = [csg EXCEPT !.uf = f.uf]
       /\ th' = [th EXCEPT ![t].found = f.root,
                           ![t].pc = IF th[t].op = "LinkIdentifiers" /\ th[t].root # f.root
                                     THEN "union" ELSE "done",
                           ![t].ret = IF th[t].op = "AreLinked"
                                      THEN <<th[t].root = f.root>> ELSE <<>>]
  /\ mu' = Unlock(mu, t)
  /\ UNCHANGED <<unthreaded, nops, links>>

\* LinkIdentifiers: csg.uf.Union(id1, id2).
UnionStep(t) ==
  /\ th[t].pc = "union"
  /\ HoldsLock(mu, t)
  /\ csg' = [csg EXCEPT !.uf = Union(csg.uf, th[t].a, th[t].b).uf]
  /\ th' = [th EXCEPT ![t].pc = "remove1"]
  /\ mu' = Unlock(mu, t)
  /\ UNCHANGED <<unthreaded, nops, links>>

\* LinkIdentifiers: csg.cache.Remove(id1).
Remove1(t) ==
  /\ th[t].pc = "remove1"
  /\ csg' = [csg EXCEPT !.cache = LruRemove(csg.cache, th[t].a)]
  /\ th' = [th EXCEPT ![t].pc = "remove2"]
  /\ UNCHANGED <<unthreaded, mu, nops, links>>

\* LinkIdentifiers: csg.cache.Remove(id2).
Remove2(t) ==
  /\ th[t].pc = "remove2"
  /\ csg' = [csg EXCEPT !.cache = LruRemove(csg.cache, th[t].b)]
  /\ th' = [th EXCEPT ![t].pc = "done"]
  /\ UNCHANGED <<unthreaded, mu, nops, links>>

\* ComponentSize: root := uf.Find(id).
SizeFind(t) ==
  /\ th[t].pc = "size_find"
  /\ HoldsLock(mu, t)
  /\ \E f \in {Find(csg.uf, th[t].a)} :
       /\ csg' = [csg EXCEPT !.uf = f.uf]
       /\ th' = [th EXCEPT ![t].pc = "size_rlock", ![t].root = f.root, ![t].found = f.root]
  /\ mu' = Unlock(mu, t)
  /\ UNCHANGED <<unthreaded, nops, links>>

\* ComponentSize: uf.mu.RLock().
SizeRLock(t) ==
  /\ th[t].pc = "size_rlock"
  /\ CanRLock(mu)
  /\ mu' = RLock(mu, t)
  /\ th' = [th EXCEPT ![t].pc = "size_loop"]
  /\ UNCHANGED <<unthreaded, csg, nops, links>>

\* ComponentSize: the loop, in which findWithoutLock compresses the path
\* of every node, and the RUnlock.
SizeLoop(t) ==
  /\ th[t].pc = "size_loop"
  /\ LET nodes == DOMAIN csg.uf.parent
     IN /\ csg' = [csg EXCEPT !.uf = FindEach(csg.uf, SeqOf(nodes))]
        /\ th' = [th EXCEPT ![t].pc = "done",
                            ![t].ret = <<Cardinality({n \in nodes :
                                           RootOf(csg.uf, n) = th[t].root})>>]
  /\ mu' = RUnlock(mu, t)
  /\ UNCHANGED <<unthreaded, nops, links>>

\* Two threads in the loop of ComponentSize at once, one of them writing
\* uf.parent: the runtime may stop the program ("fatal error: concurrent
\* map read and map write").
SizeFatal(t) ==
  /\ th[t].pc = "size_loop"
  /\ \E u \in Threads \ {t} : th[u].pc = "size_loop"
  /\ \E n \in DOMAIN csg.uf.parent : csg.uf.parent[n] # n
  /\ th' = [u \in Threads |-> [th[u] EXCEPT !.pc = "fatal"]]
  /\ UNCHANGED <<unthreaded, csg, mu, nops, links>>

NextThreads ==
  \/ \E p \in SetupPairs : SetupLink(p[1], p[2])
  \/ \E t \in Threads : \E p \in ThreadPairs : StartLinkIdentifiers(t, p[1], p[2])
  \/ \E p \in ThreadPairs : StartAreLinked("t1", p[1], p[2])
  \/ \E t \in Threads : \E a \in Atoms : StartGetSessionSize(t, a)
  \/ \E t \in Threads : CallLock(t)
  \/ \E t \in Threads : Connected1(t)
  \/ \E t \in Threads : Connected2(t)
  \/ \E t \in Threads : UnionStep(t)
  \/ \E t \in Threads : Remove1(t)
  \/ \E t \in Threads : Remove2(t)
  \/ \E t \in Threads : SizeFind(t)
  \/ \E t \in Threads : SizeRLock(t)
  \/ \E t \in Threads : SizeLoop(t)
  \/ \E t \in Threads : SizeFatal(t)

SpecThreads == InitEngines({"canonical"}) /\ [][NextThreads]_vars

(***************************************************************************)
(* SpecMerge: after the setup, two threads call LinkIdentifiers and        *)
(* GetSessionKey with two identifiers concurrently, one call each.         *)
(***************************************************************************)
\* The Identifiers maps of the threads: two non-empty values.
ThreadMaps ==
  {m \in IdentifierMaps : Cardinality(DOMAIN m) = 2 /\ \A t \in DOMAIN m : m[t] # ""}

\* GetSessionKey(ids) up to uf.Find(identifiers[0]).
StartGetSessionKey(t, ids) ==
  /\ kind = "canonical"
  /\ th[t].pc = "idle"
  /\ \E identifiers \in {normalizeIdentifiers(ids, order) : order \in Orders(ids)} :
       /\ th' = [th EXCEPT ![t] = [IdleThread EXCEPT !.pc = "get_find",
                                                      !.op = "GetSessionKey",
                                                      !.a = identifiers[1],
                                                      !.b = identifiers[2]]]
       /\ links' = links \cup {Pair(identifiers[1], identifiers[2])}
  /\ UNCHANGED <<unthreaded, csg, mu, nops>>

\* root := csg.uf.Find(identifiers[0])
GetFind(t) ==
  /\ th[t].pc = "get_find"
  /\ HoldsLock(mu, t)
  /\ \E f \in {Find(csg.uf, th[t].a)} :
       /\ csg' = [csg EXCEPT !.uf = f.uf]
       /\ th' = [th EXCEPT ![t].pc = "get_union", ![t].root = f.root]
  /\ mu' = Unlock(mu, t)
  /\ UNCHANGED <<unthreaded, nops, links>>

\* root = csg.uf.Union(root, identifiers[1])
GetUnion(t) ==
  /\ th[t].pc = "get_union"
  /\ HoldsLock(mu, t)
  /\ \E u \in {Union(csg.uf, th[t].root, th[t].b)} :
       /\ csg' = [csg EXCEPT !.uf = u.uf]
       /\ th' = [th EXCEPT ![t].pc = "get_select", ![t].root = u.root]
  /\ mu' = Unlock(mu, t)
  /\ UNCHANGED <<unthreaded, nops, links>>

\* sessionKey := generateSessionKey(selectCanonical(root)), where
\* GetComponentMembers runs under uf.mu.Lock().
GetSelect(t) ==
  /\ th[t].pc = "get_select"
  /\ HoldsLock(mu, t)
  /\ \E c \in {selectCanonical(csg.uf, th[t].root)} :
       /\ csg' = [csg EXCEPT !.uf = c.uf]
       /\ th' = [th EXCEPT ![t].pc = "get_cache",
                           ![t].ret = <<generateSessionKey(c.canonical)>>]
  /\ mu' = Unlock(mu, t)
  /\ UNCHANGED <<unthreaded, nops, links>>

\* csg.cache.Get(identifiers[0]) and the comparison with sessionKey.
GetCache(t) ==
  /\ th[t].pc = "get_cache"
  /\ csg' = [csg EXCEPT !.cache = LruGet(csg.cache, th[t].a)]
  /\ th' = [th EXCEPT ![t].pc =
                        IF /\ LruContains(csg.cache, th[t].a)
                           /\ LruPeek(csg.cache, th[t].a) = th[t].ret[1]
                        THEN "get_add2" ELSE "get_add1"]
  /\ UNCHANGED <<unthreaded, mu, nops, links>>

\* csg.cache.Add(identifiers[0], sessionKey)
GetAdd1(t) ==
  /\ th[t].pc = "get_add1"
  /\ csg' = [csg EXCEPT !.cache = LruAdd(csg.cache, th[t].a, th[t].ret[1])]
  /\ th' = [th EXCEPT ![t].pc = "get_add2"]
  /\ UNCHANGED <<unthreaded, mu, nops, links>>

\* csg.cache.Add(identifiers[1], sessionKey) and the return.
GetAdd2(t) ==
  /\ th[t].pc = "get_add2"
  /\ csg' = [csg EXCEPT !.cache = LruAdd(csg.cache, th[t].b, th[t].ret[1])]
  /\ th' = [th EXCEPT ![t].pc = "done"]
  /\ UNCHANGED <<unthreaded, mu, nops, links>>

NextMerge ==
  \/ \E p \in SetupPairs : SetupLink(p[1], p[2])
  \/ \E t \in Threads : \E p \in ThreadPairs : StartLinkIdentifiers(t, p[1], p[2])
  \/ \E t \in Threads : \E ids \in ThreadMaps : StartGetSessionKey(t, ids)
  \/ \E t \in Threads : CallLock(t)
  \/ \E t \in Threads : Connected1(t)
  \/ \E t \in Threads : Connected2(t)
  \/ \E t \in Threads : UnionStep(t)
  \/ \E t \in Threads : Remove1(t)
  \/ \E t \in Threads : Remove2(t)
  \/ \E t \in Threads : GetFind(t)
  \/ \E t \in Threads : GetUnion(t)
  \/ \E t \in Threads : GetSelect(t)
  \/ \E t \in Threads : GetCache(t)
  \/ \E t \in Threads : GetAdd1(t)
  \/ \E t \in Threads : GetAdd2(t)

SpecMerge == InitEngines({"canonical"}) /\ [][NextMerge]_vars

(***************************************************************************)
(* C26: a Connected (AreLinked) call that runs concurrently with Union or  *)
(* LinkIdentifiers calls never returns false for two atoms that were       *)
(* already connected when the call started.                                *)
(***************************************************************************)
C26_ConnectedConsistent ==
  \A t \in Threads :
    th[t].op = "AreLinked" /\ th[t].pc = "done" /\ th[t].pre => th[t].ret = <<TRUE>>

\* C26 for the calls that no link overlaps: the other thread has not
\* started, or had returned when the call started.
C26_ConnectedAlone ==
  \A t \in Threads :
    /\ th[t].op = "AreLinked" /\ th[t].pc = "done" /\ th[t].pre
    /\ \A u \in Threads \ {t} : th[u].pc = "idle"
    => th[t].ret = <<TRUE>>

(***************************************************************************)
(* C27: concurrent merges.  When several threads concurrently call         *)
(* LinkIdentifiers, or GetSessionKey with several atoms, with pairs that   *)
(* merge components, then after all calls have returned the partition into *)
(* components is the same for every interleaving (the components of the    *)
(* pairs handed to the calls), the component size equals the number of     *)
(* distinct atoms inserted, and GetSessionKey returns the same key for     *)
(* every atom of a component.                                              *)
(***************************************************************************)
AllReturned == \A t \in Threads : th[t].pc = "done"

\* No call is running: the setup, or all calls of the threads have returned.
Quiescent == AllReturned \/ \A t \in Threads : th[t].pc = "idle"

\* The set of a in the union-find structure.
SetOf(uf, a) == {n \in DOMAIN uf.parent : Top(uf.parent, n) = Top(uf.parent, a)}

C27_ConcurrentMerges ==
  Quiescent =>
    \A a \in DOMAIN csg.uf.parent :
      /\ SetOf(csg.uf, a) = LinkComponent(links, a)
      /\ CsgGetSessionSize(csg, a).size = Cardinality(LinkComponent(links, a))
      /\ \A b \in LinkComponent(links, a) :
           a \in NormalAtoms /\ b \in NormalAtoms => CsgKeyOf(csg, a) = CsgKeyOf(csg, b)

\* A lookup and a link have run concurrently, their pairs overlap and the
\* four atoms are in one component.
C27_Witness ==
  /\ AllReturned
  /\ th["t1"].op = "GetSessionKey"
  /\ th["t2"].op = "LinkIdentifiers"
  /\ {th["t1"].a, th["t1"].b} \cap {th["t2"].a, th["t2"].b} # {}
  /\ \E a \in DOMAIN csg.uf.parent : Cardinality(SetOf(csg.uf, a)) = 4

(***************************************************************************)
(* C29: race freedom.  Every write to a shared map happens while the       *)
(* writing thread holds the write lock of the owning structure, so no two  *)
(* threads ever write the same map, or write and read it, at the same      *)
(* time; this includes the path compression done by                        *)
(* UnionFind.ComponentSize.                                                *)
(***************************************************************************)
\* A step of thread t that changes uf.parent or uf.rank.
WritesUnionFind(t) == th'[t] # th[t] /\ csg'.uf # csg.uf

C29_WritesUnderWriteLock ==
  [][\A t \in Threads : WritesUnionFind(t) => HoldsLock(mu, t)]_vars

\* The runtime never stops the program for a concurrent map access.
C29_NoFatal == \A t \in Threads : th[t].pc # "fatal"

\* C29 for Find and Union: the steps outside the loop of ComponentSize.
C29_FindUnionUnderWriteLock ==
  [][\A t \in Threads :
       WritesUnionFind(t) /\ th[t].pc # "size_loop" => HoldsLock(mu, t)]_vars

(***************************************************************************)
(* C30: UnionFind.Find.  For an unknown atom it inserts the atom as its    *)
(* own root with rank 0 and returns it; for a known atom it returns the    *)
(* root of its tree and leaves every node on the visited path pointing     *)
(* directly at that root; the returned root is a fixed point               *)
(* (Find(Find(a)) = Find(a)), and Find never changes which atoms are       *)
(* connected.                                                              *)
(***************************************************************************)
\* The argument of the Find call that thread t is about to make.
FindArg(t) == IF th[t].pc = "connected2" THEN th[t].b ELSE th[t].a

\* A step in which thread t runs Find.
FindStep(t) ==
  /\ th[t].pc \in {"connected1", "connected2", "size_find"}
  /\ th'[t] # th[t]

\* The nodes on the path from id to its root.
RECURSIVE PathOf(_, _)
PathOf(parent, id) ==
  IF parent[id] = id THEN {id} ELSE {id} \cup PathOf(parent, parent[id])

FindPost(t) ==
  LET id == FindArg(t)
      old == csg.uf
      new == csg'.uf
      found == th'[t].found
  IN /\ id \notin DOMAIN old.parent =>
          /\ new.parent = Put(old.parent, id, id)
          /\ new.rank = Put(old.rank, id, 0)
          /\ found = id
     /\ id \in DOMAIN old.parent =>
          /\ found = Top(old.parent, id)
          /\ DOMAIN new.parent = DOMAIN old.parent
          /\ \A n \in PathOf(old.parent, id) : new.parent[n] = found
          /\ \A n \in DOMAIN old.parent \ PathOf(old.parent, id) :
               new.parent[n] = old.parent[n]
          /\ new.rank = old.rank
     /\ Find(new, found) = [uf |-> new, root |-> found]
     /\ Find(new, id).root = found
     /\ \A n, m \in DOMAIN old.parent :
          Top(old.parent, n) = Top(old.parent, m) <=> Top(new.parent, n) = Top(new.parent, m)
     /\ \A n \in DOMAIN new.parent \ DOMAIN old.parent : SetOf(new, n) = {n}

C30_Find == [][\A t \in Threads : FindStep(t) => FindPost(t)]_vars

\* A Find has returned a root that is not its argument, and its argument
\* and a former root of rank 1 point directly at it.
C30_Witness ==
  \E t \in Threads :
    /\ th[t].found # EmptyId
    /\ th[t].pc \in {"connected2", "size_rlock"}
    /\ th[t].a # th[t].found
    /\ csg.uf.parent[th[t].a] = th[t].found
    /\ \E n \in DOMAIN csg.uf.parent :
         /\ n \notin {th[t].a, th[t].found}
         /\ csg.uf.parent[n] = th[t].found
         /\ csg.uf.rank[n] = 1

(***************************************************************************)
(* SpecLocks: after up to MaxSetup links made by one thread, two threads   *)
(* call GetStats, GetAllSessions and LinkIdentifiers of one                *)
(* SessionGenerator concurrently, one call each.  mu is sg.mu; a step is   *)
(* one call of sync.RWMutex or one critical section.                       *)
(***************************************************************************)
\* The state the threads of SpecLocks leave alone.
unlocked ==
  <<kind, csg, csg2, sg2, ret, ret2, links2, called, history, oldToNew, seen, owned,
    passed, dropped, bare>>

SgSetupLink(a, b) ==
  /\ kind = "structural"
  /\ \A t \in Threads : th[t].pc = "idle"
  /\ nops < MaxSetup
  /\ nops' = nops + 1
  /\ sg' = SgLinkIdentifiers(sg, a, b)
  /\ links' = links \cup {Pair(a, b)}
  /\ UNCHANGED <<unlocked, mu, th, bare>>

\* GetStats() up to sg.mu.RLock().
SgStartGetStats(t) ==
  /\ kind = "structural"
  /\ th[t].pc = "idle"
  /\ th' = [th EXCEPT ![t] = [IdleThread EXCEPT !.pc = "stats_rlock", !.op = "GetStats"]]
  /\ UNCHANGED <<unlocked, sg, mu, nops, links>>

\* GetAllSessions() up to sg.mu.RLock().
SgStartGetAllSessions(t) ==
  /\ kind = "structural"
  /\ th[t].pc = "idle"
  /\ th' = [th EXCEPT ![t] = [IdleThread EXCEPT !.pc = "sessions_rlock",
                                                 !.op = "GetAllSessions"]]
  /\ UNCHANGED <<unlocked, sg, mu, nops, links>>

\* LinkIdentifiers(a, b), both non-empty, up to sg.mu.Lock().
SgStartLinkIdentifiers(t, a, b) ==
  /\ kind = "structural"
  /\ th[t].pc = "idle"
  /\ th' = [th EXCEPT ![t] = [IdleThread EXCEPT !.pc = "link_lock",
                                                 !.op = "LinkIdentifiers",
                                                 !.a = a, !.b = b]]
  /\ links' = links \cup {Pair(a, b)}
  /\ UNCHANGED <<unlocked, sg, mu, nops>>

\* GetStats: sg.mu.RLock().
GetStatsRLock(t) ==
  /\ th[t].pc = "stats_rlock"
  /\ CanRLock(mu)
  /\ mu' = RLock(mu, t)
  /\ th' = [th EXCEPT ![t].pc = "sessions_rlock"]
  /\ UNCHANGED <<unlocked, sg, nops, links>>

\* GetAllSessions: sg.mu.RLock(), which GetStats reaches with its own read
\* lock held.
GetAllSessionsRLock(t) ==
  /\ th[t].pc = "sessions_rlock"
  /\ CanRLock(mu)
  /\ mu' = RLock(mu, t)
  /\ th' = [th EXCEPT ![t].pc = "sessions_loop"]
  /\ UNCHANGED <<unlocked, sg, nops, links>>

\* GetAllSessions: the loop over the components, in which
\* computeComponentCanonicalHash fills sg.hashCache, and the deferred
\* RUnlock.
GetAllSessionsLoop(t) ==
  /\ th[t].pc = "sessions_loop"
  /\ \E visit \in Visits(sg) : \E pick \in Picks(sg) :
       \E g \in {SgGetAllSessions(sg, visit, pick)} :
         /\ sg' = g.sg
         /\ th' = [th EXCEPT ![t].pc = IF th[t].op = "GetStats" THEN "stats_return"
                                       ELSE "done",
                             ![t].ret = <<g.sessions>>]
  /\ mu' = RUnlock(mu, t)
  /\ UNCHANGED <<unlocked, nops, links>>

\* GetStats: the Stats value and the deferred RUnlock.  totalNodes is
\* len(sg.edges) read before GetAllSessions: no writer has run since, the
\* read lock being held.
GetStatsReturn(t) ==
  /\ th[t].pc = "stats_return"
  /\ th' = [th EXCEPT ![t].pc = "done",
                      ![t].ret = <<Stats(Cardinality(DOMAIN sg.edges),
                                         Cardinality(DOMAIN th[t].ret[1]),
                                         Len(sg.cache.items))>>]
  /\ mu' = RUnlock(mu, t)
  /\ UNCHANGED <<unlocked, sg, nops, links>>

\* LinkIdentifiers: sg.mu.Lock().
SgCallLock(t) ==
  /\ th[t].pc = "link_lock"
  /\ CanLock(mu)
  /\ mu' = Lock(mu, t)
  /\ UNCHANGED <<unlocked, sg, th, nops, links>>

\* LinkIdentifiers: the critical section and the deferred Unlock.
SgLinkStep(t) ==
  /\ th[t].pc = "link_lock"
  /\ HoldsLock(mu, t)
  /\ sg' = SgLinkIdentifiers(sg, th[t].a, th[t].b)
  /\ th' = [th EXCEPT ![t].pc = "done"]
  /\ mu' = Unlock(mu, t)
  /\ UNCHANGED <<unlocked, nops, links>>

\* Some component has a node without an entry in sg.hashCache: the loop
\* of GetAllSessions writes the map.
FillsHashCache(s) ==
  \E component \in LiveComponents(s.edges) : ~(component \subseteq DOMAIN s.hashCache)

\* Two threads in the loop of GetAllSessions at once, writing
\* sg.hashCache: the runtime may stop the program ("fatal error:
\* concurrent map writes").
GetAllSessionsFatal(t) ==
  /\ th[t].pc = "sessions_loop"
  /\ \E u \in Threads \ {t} : th[u].pc = "sessions_loop"
  /\ FillsHashCache(sg)
  /\ th' = [u \in Threads |-> [th[u] EXCEPT !.pc = "fatal"]]
  /\ UNCHANGED <<unlocked, sg, mu, nops, links>>

\* The steps of thread t once its call has started.
LockStep(t) ==
  \/ GetStatsRLock(t)
  \/ GetAllSessionsRLock(t)
  \/ GetAllSessionsLoop(t)
  \/ GetStatsReturn(t)
  \/ SgCallLock(t)
  \/ SgLinkStep(t)
  \/ GetAllSessionsFatal(t)

NextLocks ==
  \/ \E p \in SetupPairs : SgSetupLink(p[1], p[2])
  \/ \E t \in Threads : SgStartGetStats(t)
  \/ \E t \in Threads : SgStartGetAllSessions(t)
  \/ \E t \in Threads : \E p \in ThreadPairs : SgStartLinkIdentifiers(t, p[1], p[2])
  \/ \E t \in Threads : LockStep(t)

SpecLocks == InitEngines({"structural"}) /\ [][NextLocks]_vars

\* The scheduler runs every goroutine that can run: a call that has
\* started and is not waiting for sg.mu takes its next step.
NextCalls ==
  \/ \E t \in Threads : SgStartGetStats(t)
  \/ \E t \in Threads : SgStartGetAllSessions(t)
  \/ \E t \in Threads : \E p \in ThreadPairs : SgStartLinkIdentifiers(t, p[1], p[2])
  \/ \E t \in Threads : LockStep(t)

SpecLocksFair ==
  /\ InitEngines({"structural"})
  /\ [][NextCalls]_vars
  /\ \A t \in Threads : WF_vars(LockStep(t))

(***************************************************************************)
(* C28: termination.  Every public operation terminates under any          *)
(* interleaving of threads (no deadlock): in particular                    *)
(* SessionGenerator.GetStats, which calls GetAllSessions while holding the *)
(* read lock of the same RWMutex, always returns when it runs concurrently *)
(* with writers such as LinkIdentifiers waiting for the write lock.        *)
(***************************************************************************)
\* The call of t has started and has neither returned nor been stopped.
Running(t) == th[t].pc \notin {"idle", "done", "fatal"}

\* The call of t waits for sg.mu.
Waits(t) ==
  \/ th[t].pc \in {"stats_rlock", "sessions_rlock"} /\ ~CanRLock(mu)
  \/ th[t].pc = "link_lock" /\ ~CanLock(mu) /\ ~HoldsLock(mu, t)

\* C28 as a temporal formula: every call that has started returns (or the
\* program is stopped).
C28_Terminates == \A t \in Threads : Running(t) ~> ~Running(t)

\* C28 as a state predicate: while a call is running, some running call
\* is not waiting for sg.mu.
C28_NoDeadlock == (\E t \in Threads : Running(t)) => \E t \in Threads : Running(t) /\ ~Waits(t)

\* C28 for the calls other than GetStats: without GetStats no state is a
\* deadlock.
C28_NoDeadlockWithoutGetStats ==
  (\A t \in Threads : th[t].op # "GetStats") => C28_NoDeadlock

\* C29 for SessionGenerator: sg.hashCache is written only by a thread
\* that holds the write lock of sg.mu.
C29_HashCacheUnderWriteLock ==
  [][\A t \in Threads :
       th'[t].pc # th[t].pc /\ sg'.hashCache # sg.hashCache => HoldsLock(mu, t)]_vars


(***************************************************************************)
(* SpecUnionFind: callers of one UnionFind (csg.uf), up to MaxUfOps calls  *)
(* of Find, Union, Connected, ComponentSize, GetComponentMembers and       *)
(* GetAllComponents.  ret holds the last call, its arguments and result.   *)
(***************************************************************************)
MaxUfOps == 4

\* The state the callers of SpecUnionFind leave alone.
ufRest ==
  <<kind, sg, csg2, sg2, ret2, links, links2, called, history, oldToNew, seen, owned,
    passed, dropped, mu, th, bare>>

UfStep ==
  /\ kind = "canonical"
  /\ nops < MaxUfOps
  /\ nops' = nops + 1
  /\ UNCHANGED ufRest

UfFind(id) ==
  /\ UfStep
  /\ \E f \in {Find(csg.uf, id)} :
       /\ csg' = [csg EXCEPT !.uf = f.uf]
       /\ ret' = [op |-> "Find", val |-> <<id, f.root>>]

UfUnion(id1, id2) ==
  /\ UfStep
  /\ \E u \in {Union(csg.uf, id1, id2)} :
       /\ csg' = [csg EXCEPT !.uf = u.uf]
       /\ ret' = [op |-> "Union", val |-> <<id1, id2, u.root>>]

UfConnected(id1, id2) ==
  /\ UfStep
  /\ \E c \in {Connected(csg.uf, id1, id2)} :
       /\ csg' = [csg EXCEPT !.uf = c.uf]
       /\ ret' = [op |-> "Connected", val |-> <<id1, id2, c.ok>>]

UfComponentSize(id) ==
  /\ UfStep
  /\ \E c \in {ComponentSize(csg.uf, id)} :
       /\ csg' = [csg EXCEPT !.uf = c.uf]
       /\ ret' = [op |-> "ComponentSize", val |-> <<id, c.size>>]

UfGetComponentMembers(id) ==
  /\ UfStep
  /\ \E g \in {GetComponentMembers(csg.uf, id)} :
       /\ csg' = [csg EXCEPT !.uf = g.uf]
       /\ ret' = [op |-> "GetComponentMembers", val |-> <<id, g.members>>]

UfGetAllComponents ==
  /\ UfStep
  /\ \E g \in {GetAllComponents(csg.uf)} :
       /\ csg' = [csg EXCEPT !.uf = g.uf]
       /\ ret' = [op |-> "GetAllComponents", val |-> <<g.components>>]

NextUnionFind ==
  \/ \E id \in Atoms : UfFind(id)
  \/ \E id1, id2 \in Atoms : UfUnion(id1, id2)
  \/ \E id1, id2 \in Atoms : UfConnected(id1, id2)
  \/ \E id \in Atoms : UfComponentSize(id)
  \/ \E id \in Atoms : UfGetComponentMembers(id)
  \/ UfGetAllComponents

SpecUnionFind == InitEngines({"canonical"}) /\ [][NextUnionFind]_vars

(***************************************************************************)
(* C31: UnionFind.Union(a, b).  If a and b already have the same root it   *)
(* returns that root and changes no component; otherwise it attaches the   *)
(* root of lower rank under the root of higher rank, and on equal ranks    *)
(* attaches b's root under a's root and increases the rank of a's root by  *)
(* one; the returned value equals Find(a) and Find(b) right after the      *)
(* call, and the merged component is the union of the two previous         *)
(* components while all other components are unchanged.                    *)
(***************************************************************************)
\* The root, the rank and the set of id before a call: an unknown id is a
\* set of its own with rank 0.
RootBefore(uf, id) == IF id \in DOMAIN uf.parent THEN Top(uf.parent, id) ELSE id

RankBefore(uf, id) == IF id \in DOMAIN uf.rank THEN uf.rank[id] ELSE 0

SetBefore(uf, id) == IF id \in DOMAIN uf.parent THEN SetOf(uf, id) ELSE {id}

\* old, new: the structure before and after Union(a, b), which returned
\* root.
UnionPost(old, new, a, b, root) ==
  LET ra == RootBefore(old, a)
      rb == RootBefore(old, b)
      known == DOMAIN old.parent \cup {a, b}
  IN /\ DOMAIN new.parent = known
     /\ DOMAIN new.rank = known
     /\ ra = rb =>
          /\ root = ra
          /\ new.parent[ra] = ra
          /\ \A n \in known : SetOf(new, n) = SetBefore(old, n)
          /\ \A n \in known : new.rank[n] = RankBefore(old, n)
     /\ ra # rb /\ RankBefore(old, ra) < RankBefore(old, rb) =>
          /\ root = rb
          /\ new.parent[ra] = rb
          /\ new.parent[rb] = rb
          /\ \A n \in known : new.rank[n] = RankBefore(old, n)
     /\ ra # rb /\ RankBefore(old, ra) > RankBefore(old, rb) =>
          /\ root = ra
          /\ new.parent[rb] = ra
          /\ new.parent[ra] = ra
          /\ \A n \in known : new.rank[n] = RankBefore(old, n)
     /\ ra # rb /\ RankBefore(old, ra) = RankBefore(old, rb) =>
          /\ root = ra
          /\ new.parent[rb] = ra
          /\ new.parent[ra] = ra
          /\ new.rank[ra] = RankBefore(old, ra) + 1
          /\ \A n \in known \ {ra} : new.rank[n] = RankBefore(old, n)
     /\ Find(new, a).root = root
     /\ Find(new, b).root = root
     /\ SetOf(new, a) = SetBefore(old, a) \cup SetBefore(old, b)
     /\ \A n \in known \ (SetBefore(old, a) \cup SetBefore(old, b)) :
          SetOf(new, n) = SetBefore(old, n)

\* C31: every Union call leaves the postcondition UnionPost.
C31_Union ==
  [][ret'.op = "Union" /\ nops' = nops + 1 =>
       UnionPost(csg.uf, csg'.uf, ret'.val[1], ret'.val[2], ret'.val[3])]_vars

\* A Union of two sets of two atoms, with roots of equal rank 1, has
\* returned the root of its first argument, which now has rank 2.
C31_Witness ==
  /\ ret.op = "Union"
  /\ ret.val[1] # ret.val[3]
  /\ csg.uf.rank[ret.val[3]] = 2
  /\ Cardinality(SetOf(csg.uf, ret.val[3])) = 4

(***************************************************************************)
(* C32: structure of the disjoint-set graph.  After any sequence of Find,  *)
(* Union, Connected, ComponentSize, GetComponentMembers and                *)
(* GetAllComponents calls, parent and rank have the same key set, every    *)
(* parent pointer refers to a known atom, the parent pointers form a       *)
(* forest (following them from any atom reaches a self-parented root       *)
(* without a cycle), and the rank of a non-root atom is strictly smaller   *)
(* than the rank of its parent.                                            *)
(***************************************************************************)
\* The node reached from id by n parent pointers.
RECURSIVE Climb(_, _, _)
Climb(parent, id, n) == IF n = 0 THEN id ELSE Climb(parent, parent[id], n - 1)

WellFormed(uf) ==
  LET nodes == DOMAIN uf.parent
  IN /\ DOMAIN uf.rank = nodes
     /\ \A n \in nodes : uf.parent[n] \in nodes
     /\ (\A n \in nodes : uf.parent[n] \in nodes) =>
          \A n \in nodes :
            LET top == Climb(uf.parent, n, Cardinality(nodes) - 1)
            IN uf.parent[top] = top
     /\ \A n \in nodes : uf.rank[n] \in Nat
     /\ \A n \in nodes : uf.parent[n] # n => uf.rank[n] < uf.rank[uf.parent[n]]

\* C32: the union-find structure is a well-formed forest with ranks.
C32_Forest == WellFormed(csg.uf)

\* A tree of three levels: a node whose parent is not a root.
C32_Witness ==
  \E n \in DOMAIN csg.uf.parent :
    /\ csg.uf.parent[n] # n
    /\ csg.uf.parent[csg.uf.parent[n]] # csg.uf.parent[n]

(***************************************************************************)
(* C33: verify-on-read of the canonical-root engine.  When                 *)
(* GetSessionKey(ids) returns key k, every atom of the query that is       *)
(* present in the cache maps to k (with sufficient capacity all of them    *)
(* are present), so a stale cache entry left by an earlier link is         *)
(* overwritten by the next lookup that contains that atom; atoms outside   *)
(* the query keep their cache entries.                                     *)
(***************************************************************************)
\* The keys of the cache.
LruKeys(c) == {c.items[i].k : i \in 1..Len(c.items)}

\* After a lookup of the atoms query that returned key: the entries of the
\* atoms of the query.
QueryCached(new, query, key) ==
  /\ \A x \in query \cap LruKeys(new) : LruPeek(new, x) = key
  /\ Cardinality(query) <= new.size => query \subseteq LruKeys(new)

\* The lookup has written no entry of an atom outside the query.
OthersNotWritten(old, new, query) ==
  \A x \in LruKeys(new) \ query : x \in LruKeys(old) /\ LruPeek(new, x) = LruPeek(old, x)

\* The entries of the atoms outside the query are still there.
OthersKept(old, new, query) ==
  \A x \in LruKeys(old) \ query : x \in LruKeys(new) /\ LruPeek(new, x) = LruPeek(old, x)

\* C33 as stated: a lookup leaves every cache entry outside the query as it was.
C33_VerifyOnReadKeepsAll ==
  kind = "canonical" =>
    \A ids \in IdentifierMaps : \A order \in Orders(ids) :
      \A query \in {Range(normalizeIdentifiers(ids, order))} :
        \A r \in {CsgGetSessionKey(csg, ids, order)} :
          query # {} =>
            /\ QueryCached(r.csg.cache, query, r.key)
            /\ OthersKept(csg.cache, r.csg.cache, query)

\* C33 with the eviction of the LRU cache: the entries outside the query
\* are never written, and they are all kept when the cache has room for
\* them and the atoms of the query.
C33_VerifyOnRead ==
  kind = "canonical" =>
    \A ids \in IdentifierMaps : \A order \in Orders(ids) :
      \A query \in {Range(normalizeIdentifiers(ids, order))} :
        \A r \in {CsgGetSessionKey(csg, ids, order)} :
          query # {} =>
            /\ QueryCached(r.csg.cache, query, r.key)
            /\ OthersNotWritten(csg.cache, r.csg.cache, query)
            /\ Cardinality(LruKeys(csg.cache) \cup query) <= csg.cache.size =>
                 OthersKept(csg.cache, r.csg.cache, query)

\* The cache holds a stale entry left by a link, next to the entry of
\* another atom: a lookup of the stale atom overwrites the one and keeps
\* the other.
C33_Witness ==
  /\ kind = "canonical"
  /\ \E x \in NormalAtoms : \E y \in Atoms \ {x} :
       \A r \in {CsgGetSessionKey(csg, IdsOf(x), <<x[1]>>)} :
         /\ x \in LruKeys(csg.cache)
         /\ y \in LruKeys(csg.cache)
         /\ LruPeek(csg.cache, x) # r.key
         /\ LruPeek(r.csg.cache, x) = r.key
         /\ LruPeek(r.csg.cache, y) = LruPeek(csg.cache, y)

(***************************************************************************)
(* C34: link fast path of the canonical-root engine.  LinkIdentifiers(a,   *)
(* b) on atoms in different components performs one union and removes     *)
(* exactly the cache entries of a and b, leaving the cache entries of      *)
(* every other atom unchanged; when a and b are already connected it       *)
(* changes neither the components nor any cache entry.                     *)
(***************************************************************************)
\* new is old with the sets of a and b merged, every other set unchanged.
OneUnion(old, new, a, b) ==
  LET known == DOMAIN old.parent \cup {a, b}
      merged == SetBefore(old, a) \cup SetBefore(old, b)
  IN /\ DOMAIN new.parent = known
     /\ SetOf(new, a) = merged
     /\ \A n \in known \ merged : SetOf(new, n) = SetBefore(old, n)

FreshHash(s, n) ==
  ComponentFingerprint(s.edges, findConnectedComponentWithoutLock(s.edges, n))

Coherent(s) == \A n \in DOMAIN s.hashCache : s.hashCache[n] = FreshHash(s, n)

\* C35: every hash cache entry is the hash of its atom's component.
C35_HashCacheCoherent == kind = "structural" => Coherent(sg)

\* C35 for LinkIdentifiers: after the call no atom of the merged component
\* has an entry, and the entries of the other atoms are as before.
C35_LinkDeletesComponent ==
  kind = "structural" =>
    \A a, b \in Atoms :
      \A r \in {SgLinkIdentifiers(sg, a, b)} :
        \A component \in {findConnectedComponentWithoutLock(r.edges, a)} :
          /\ DOMAIN r.hashCache = DOMAIN sg.hashCache \ component
          /\ \A n \in DOMAIN r.hashCache : r.hashCache[n] = sg.hashCache[n]
          /\ Coherent(sg) => Coherent(r)

(***************************************************************************)
(* C36: reverse index of the history tracker.  After every wrapper         *)
(* operation returns, for every history record H and every key k in        *)
(* H.OldKeys, oldToNew[k] == H.CurrentKey; for every key k of oldToNew,    *)
(* the record of oldToNew[k] exists and lists k in its OldKeys; and no     *)
(* OldKeys list contains a duplicate.                                      *)
(***************************************************************************)
\* Every old key of a record points at the record's current key.
OldKeysIndexed ==
  \A key \in DOMAIN history :
    \A k \in Range(history[key].OldKeys) :
      k \in DOMAIN oldToNew /\ oldToNew[k] = history[key].CurrentKey

\* Every entry of the index points at a record that lists its key.
IndexListed ==
  \A k \in DOMAIN oldToNew :
    /\ oldToNew[k] \in DOMAIN history
    /\ k \in Range(history[oldToNew[k]].OldKeys)

NoDuplicateOldKeys ==
  \A key \in DOMAIN history :
    \A i, j \in 1..Len(history[key].OldKeys) :
      history[key].OldKeys[i] = history[key].OldKeys[j] => i = j

\* C36: the reverse index and the OldKeys lists agree, without duplicates.
C36_ReverseIndex == OldKeysIndexed /\ IndexListed /\ NoDuplicateOldKeys

\* The parts of C36 one by one.
C36_OldKeysIndexed == OldKeysIndexed

C36_IndexListed == IndexListed

C36_NoDuplicates == NoDuplicateOldKeys

(***************************************************************************)
(* SpecGrow: callers that look up, link, query (AreLinked, GetSessionSize, *)
(* GetStats, GetAllSessions) and, for the SessionGenerator, clear the      *)
(* caches, without a Clear call.                                           *)
(***************************************************************************)
NextGrow ==
  \/ NextQuery
  \/ StructuralClearCache
  \/ StatsGetStats
  \/ StatsGetAllSessions

SpecGrow == Init /\ [][NextGrow]_vars

(***************************************************************************)
(* C37: monotonic growth between Clear calls.  Once an atom has been       *)
(* inserted it stays known, and once AreLinked(a, b) is true it stays true *)
(* after any further GetSessionKey, LinkIdentifiers, ClearCache or query   *)
(* call; components only merge and never split, so GetSessionSize of an    *)
(* atom never decreases.                                                   *)
(***************************************************************************)
\* The atoms the engine knows, and the answers of AreLinked and
\* GetSessionSize, in the engine state (c, s).
KnownIn(c, s) == IF kind = "canonical" THEN DOMAIN c.uf.parent ELSE DOMAIN s.edges

LinkedIn(c, s, a, b) ==
  IF kind = "canonical" THEN CsgAreLinked(c, a, b).ok ELSE SgAreLinked(s, a, b)

SizeIn(c, s, a) ==
  IF kind = "canonical" THEN CsgGetSessionSize(c, a).size ELSE SgGetSessionSize(s, a)

Grows(c, s, c2, s2) ==
  /\ KnownIn(c, s) \subseteq KnownIn(c2, s2)
  /\ \A a, b \in Atoms : LinkedIn(c, s, a, b) => LinkedIn(c2, s2, a, b)
  /\ \A a \in Atoms : SizeIn(c, s, a) <= SizeIn(c2, s2, a)

\* C37: no call other than Clear makes an atom unknown, unlinks a pair or
\* shrinks a component.
C37_MonotonicGrowth == [][Grows(csg, sg, csg', sg')]_vars

\* A ClearCache call has returned with a component of three atoms in the
\* graph.
C37_Witness ==
  /\ kind = "structural"
  /\ ret.op = "ClearCache"
  /\ \E a \in DOMAIN sg.edges : SgGetSessionSize(sg, a) >= 3

(***************************************************************************)
(* C38: queries are read-only.  AreLinked, GetSessionSize, GetAllSessions  *)
(* and GetStats never change the observable state of an engine; in         *)
(* particular AreLinked or GetSessionSize with atoms that were never       *)
(* looked up or linked leaves GetStats().TotalIdentifiers and              *)
(* GetStats().TotalSessions unchanged (both engines).                      *)
(***************************************************************************)
\* The values of TotalIdentifiers and TotalSessions that GetStats can return
\* in the engine state (c, s).
StatsIn(c, s) ==
  IF kind = "canonical"
  THEN {[TotalIdentifiers |-> r.TotalIdentifiers, TotalSessions |-> r.TotalSessions] :
          r \in {CsgGetStats(c).stats}}
  ELSE {[TotalIdentifiers |-> r.TotalIdentifiers, TotalSessions |-> r.TotalSessions] :
          r \in UNION {{SgGetStats(s, visit, pick).stats : pick \in Picks(s)} :
                         visit \in Visits(s)}}

ViewIn(c, s) == IF kind = "canonical" THEN CsgView(c) ELSE SgView(s)

QueryReturned ==
  /\ nops' = nops + 1
  /\ ret'.op \in {"AreLinked", "GetSessionSize", "GetAllSessions", "GetStats"}

\* C38: a query changes neither the statistics nor the keys and sizes.
C38_QueriesReadOnly ==
  [][QueryReturned => /\ StatsIn(csg', sg') = StatsIn(csg, sg)
                      /\ ViewIn(csg', sg') = ViewIn(csg, sg)]_vars

\* The part about the statistics alone.
C38_StatsUnchanged ==
  [][QueryReturned => StatsIn(csg', sg') = StatsIn(csg, sg)]_vars

\* The keys and the sizes the CanonicalSessionGenerator answers with are not
\* changed by a query.
C38_CanonicalViewUnchanged ==
  [][QueryReturned /\ kind = "canonical" => ViewIn(csg', sg') = ViewIn(csg, sg)]_vars

\* The statistics of the SessionGenerator are not changed by a query.
C38_StructuralStatsUnchanged ==
  [][QueryReturned /\ kind = "structural" => StatsIn(csg', sg') = StatsIn(csg, sg)]_vars

\* The claim for the SessionGenerator alone.
C38_StructuralReadOnly ==
  [][QueryReturned /\ kind = "structural"
       => /\ StatsIn(csg', sg') = StatsIn(csg, sg)
          /\ ViewIn(csg', sg') = ViewIn(csg, sg)]_vars

\* AreLinked and GetSessionSize of the SessionGenerator change nothing.
C38_StructuralPureQueries ==
  [][QueryReturned /\ kind = "structural" /\ ret'.op \in {"AreLinked", "GetSessionSize"}
       => sg' = sg]_vars

(***************************************************************************)
(* SpecWrapper: a SessionGeneratorWithHistory and its callers, with the    *)
(* states of a SessionGenerator that receives the same calls.              *)
(***************************************************************************)
\* The states a SessionGenerator can be in after GetSessionKey(ids) or
\* LinkIdentifiers(id1, id2) in one of the states of b.
BareGetSessionKey(b, ids) == UNION {{o.sg : o \in SgOutcomes(s, ids)} : s \in b}

BareKeys(b, ids) == UNION {{o.key : o \in SgOutcomes(s, ids)} : s \in b}

BareLinkIdentifiers(b, id1, id2) == {SgLinkIdentifiers(s, id1, id2) : s \in b}

WrapperGetSessionKey(ids, sampleOrder) ==
  /\ kind = "history"
  /\ HistoryStep
  /\ LET order == sampleOrder
         component == SgLookupComponent(sg, ids, order)
     IN \E cacheKey \in CacheKeys(component),
           addOrder \in AddOrders(component, sg.cache.size) :
          \E r \in {SghGetSessionKey(Sgh, ids, sampleOrder, order, cacheKey, addOrder)} :
             /\ sg' = r.h.sg
             /\ history' = r.h.history
             /\ oldToNew' = r.h.oldToNew
             /\ ret' = [op |-> "GetSessionKey", val |-> r.key]
  /\ bare' = BareGetSessionKey(bare, ids)
  /\ ret2' = [op |-> "GetSessionKey", val |-> BareKeys(bare, ids)]
  /\ UNCHANGED <<kind, csg, csg2, sg2, links, links2, called, seen, owned, passed,
                 dropped, mu, th>>

WrapperLinkIdentifiers(id1, id2) ==
  /\ kind = "history"
  /\ HistoryStep
  /\ \E cacheKey1 \in findConnectedComponentWithoutLock(sg.edges, id1),
        cacheKey2 \in findConnectedComponentWithoutLock(sg.edges, id2) :
       \E h \in {SghLinkIdentifiers(Sgh, id1, id2, cacheKey1, cacheKey2)} :
          /\ sg' = h.sg
          /\ history' = h.history
          /\ oldToNew' = h.oldToNew
  /\ ret' = [op |-> "LinkIdentifiers", val |-> <<id1, id2>>]
  /\ bare' = BareLinkIdentifiers(bare, id1, id2)
  /\ ret2' = [op |-> "LinkIdentifiers", val |-> {}]
  /\ UNCHANGED <<kind, csg, csg2, sg2, links, links2, called, seen, owned, passed,
                 dropped, mu, th>>

NextWrapper ==
  \/ \E ids \in HistoryMaps : \E sampleOrder \in Orders(ids) :
       WrapperGetSessionKey(ids, sampleOrder)
  \/ \E id1, id2 \in HistoryAtoms \cup {EmptyId} : WrapperLinkIdentifiers(id1, id2)

SpecWrapper == InitEngines({"history"}) /\ [][NextWrapper]_vars

(***************************************************************************)
(* C39: the history wrapper only adds history.  For any sequence of        *)
(* GetSessionKey and LinkIdentifiers calls, SessionGeneratorWithHistory    *)
(* returns at every GetSessionKey a key that a bare SessionGenerator can   *)
(* return for the same sequence, and AreLinked and GetSessionSize answer   *)
(* the same; the wrapper's own LinkIdentifiers leaves the same edges and   *)
(* LRU cache entries as SessionGenerator.LinkIdentifiers and no stale      *)
(* hash-cache entry that a later lookup could return.                      *)
(***************************************************************************)
\* The key the wrapper returned is one the SessionGenerator can return.
C39_KeysOfBare == ret.op = "GetSessionKey" => ret.val \in ret2.val

\* AreLinked and GetSessionSize of the wrapper answer as those of a
\* SessionGenerator after the same calls.
C39_QueriesOfBare ==
  /\ \A a, b \in HistoryAtoms \cup {EmptyId} :
       SgAreLinked(sg, a, b) \in {SgAreLinked(s, a, b) : s \in bare}
  /\ \A a \in HistoryAtoms \cup {EmptyId} :
       SgGetSessionSize(sg, a) \in {SgGetSessionSize(s, a) : s \in bare}

\* The wrapper's LinkIdentifiers, in the current state: the edges and the
\* LRU cache it leaves are those SessionGenerator.LinkIdentifiers leaves, and
\* every hash cache entry of the linked component is the hash of the
\* component.
C39_LinkOfBare ==
  \A id1, id2 \in HistoryAtoms \cup {EmptyId} :
    \A cacheKey1 \in findConnectedComponentWithoutLock(sg.edges, id1),
       cacheKey2 \in findConnectedComponentWithoutLock(sg.edges, id2) :
      \A h \in {SghLinkIdentifiers(Sgh, id1, id2, cacheKey1, cacheKey2)} :
        \A s \in {SgLinkIdentifiers(sg, id1, id2)} :
          /\ h.sg.edges = s.edges
          /\ h.sg.cache = s.cache
          /\ id1 # EmptyId /\ id2 # EmptyId =>
               \A n \in findConnectedComponentWithoutLock(h.sg.edges, id1) :
                 n \in DOMAIN h.sg.hashCache => h.sg.hashCache[n] = FreshHash(h.sg, n)

\* C39: the wrapper's keys, query answers and LinkIdentifiers are those of a
\* SessionGenerator.
C39_WrapperOnlyAddsHistory ==
  kind = "history" => C39_KeysOfBare /\ C39_QueriesOfBare /\ C39_LinkOfBare

(***************************************************************************)
(* SpecSize: after the setup, two threads call LinkIdentifiers and         *)
(* GetSessionSize of a known atom concurrently, one call each.             *)
(***************************************************************************)
\* GetSessionSize(a) of a known atom up to uf.ComponentSize; pre: the size
\* of the set of a when the call starts.
StartKnownGetSessionSize(t, a) ==
  /\ kind = "canonical"
  /\ th[t].pc = "idle"
  /\ a \in DOMAIN csg.uf.parent
  /\ th' = [th EXCEPT ![t] = [IdleThread EXCEPT !.pc = "size_find",
                                                 !.op = "GetSessionSize", !.a = a,
                                                 !.pre = Cardinality(SetOf(csg.uf, a))]]
  /\ UNCHANGED <<unthreaded, csg, mu, nops, links>>

NextSize ==
  \/ \E p \in SetupPairs : SetupLink(p[1], p[2])
  \/ \E t \in Threads : \E p \in ThreadPairs : StartLinkIdentifiers(t, p[1], p[2])
  \/ \E t \in Threads : \E a \in Atoms : StartKnownGetSessionSize(t, a)
  \/ \E t \in Threads : CallLock(t)
  \/ \E t \in Threads : Connected1(t)
  \/ \E t \in Threads : Connected2(t)
  \/ \E t \in Threads : UnionStep(t)
  \/ \E t \in Threads : Remove1(t)
  \/ \E t \in Threads : Remove2(t)
  \/ \E t \in Threads : SizeFind(t)
  \/ \E t \in Threads : SizeRLock(t)
  \/ \E t \in Threads : SizeLoop(t)
  \/ \E t \in Threads : SizeFatal(t)

SpecSize == InitEngines({"canonical"}) /\ [][NextSize]_vars

(***************************************************************************)
(* C40: GetSessionSize / UnionFind.ComponentSize of a known atom, running  *)
(* concurrently with Union or LinkIdentifiers calls, returns the size of   *)
(* the atom's component either before or after each concurrent link; it is *)
(* always at least 1 and never 0 or a count taken against a root that is   *)
(* no longer a root.                                                       *)
(***************************************************************************)
SizeReturned(t) == th[t].op = "GetSessionSize" /\ th[t].pc = "done"

\* No call of another thread is running.
OthersAtRest(t) == \A u \in Threads \ {t} : th[u].pc \in {"idle", "done"}

\* The size returned is at least 1.
C40_SizeAtLeastOne == \A t \in Threads : SizeReturned(t) => th[t].ret[1] >= 1

\* With the calls of the other thread returned, the size returned is the
\* size of the set when the call started or the size of the set now.
C40_SizeBeforeOrAfter ==
  \A t \in Threads :
    SizeReturned(t) /\ OthersAtRest(t)
      => th[t].ret[1] \in {th[t].pre, Cardinality(SetOf(csg.uf, th[t].a))}

\* The loop counts against a node that is a root.
C40_CountsAgainstRoot ==
  \A t \in Threads :
    th[t].pc = "size_loop" => csg.uf.parent[th[t].root] = th[t].root

\* C40: a concurrent GetSessionSize counts against a root and returns the
\* size before or after the link, at least 1.
C40_ComponentSize ==
  C40_SizeAtLeastOne /\ C40_SizeBeforeOrAfter /\ C40_CountsAgainstRoot

\* C40 for the calls that no link overlaps: the other thread has not
\* started.
C40_SizeAlone ==
  \A t \in Threads :
    SizeReturned(t) /\ (\A u \in Threads \ {t} : th[u].pc = "idle")
      => th[t].ret[1] = th[t].pre /\ th[t].pre >= 1

=============================================================================
